---- MODULE Spec2Model ----
(***************************************************************************)
(* A model of the tokay HTTP dispatcher (night-codes/tokay): the route     *)
(* registration layer (Route, RouterGroup, Engine.add), the dispatcher     *)
(* (Engine.find, HandleRequest, the not-found / method-not-allowed         *)
(* handlers) and the middleware pipeline (Context.Next / Context.Abort).   *)
(*                                                                         *)
(* Strings are sequences of one-character strings, so that the byte-level  *)
(* code (buildURLTemplate, strings.Replace, url.QueryEscape) is modelled   *)
(* by what it does.  A Handler is a record [tag, ops]: the tag names the   *)
(* function, ops is what its body does with the Context ("next" calls      *)
(* c.Next(), "abort" calls c.Abort()).  The two built-in handlers carry    *)
(* no ops: their bodies are the operators MethodNotAllowedHandler and      *)
(* NotFoundHandler.                                                        *)
(***************************************************************************)
EXTENDS Integers, Sequences, FiniteSets, TLC

VARIABLES
    groups,                 \* RouterGroup objects; groups[1] is engine.RouterGroup
    routeObjs,              \* Route objects, in creation order
    routes,                 \* engine.routes: name -> index of a Route object
    stores,                 \* engine.stores.M: method -> routeStore
    maxParams,              \* engine.maxParams
    notFound,               \* engine.notFound
    notFoundHandlers,       \* engine.notFoundHandlers
    RedirectTrailingSlash,  \* engine.RedirectTrailingSlash
    pool,                   \* engine.pool: the pooled Contexts (at most one here)
    last,                   \* <<>> or <<r>>: the request served last and its Context
    crashed,                \* TRUE once a request has panicked
    urlCall,                \* <<>> or <<r>>: the last Route.URL call and its result
    heap,                   \* the Contexts pool.New has made, by address (1, 2, ...)
    free,                   \* engine.pool of concurrent serving: addresses put back
    tasks,                  \* the goroutines running HandleRequest: statement
                            \* reached, request, address held, what was done
    dataMaps,               \* the dataMap objects newDataMap has made, by address
    ln,                     \* the GracefulListener and its inner listener
    conns,                  \* the connections of the inner listener: how far
                            \* Accept and gracefulConn.Close have got with each
    closing,                \* the calls of GracefulListener.Close: statement
                            \* reached, result
    mu,                     \* engine.stores.RWMutex: the writer that has it and
                            \* the readers that have it
    calls                   \* the goroutines calling add, find and
                            \* findAllowedMethods at the same time: the
                            \* statements left to run and the local variables

vars == <<groups, routeObjs, routes, stores, maxParams, notFound, notFoundHandlers,
          RedirectTrailingSlash, pool, last, crashed, urlCall, heap, free, tasks,
          dataMaps, ln, conns, closing, mu, calls>>

concVars == <<heap, free, tasks, dataMaps>>

listenerVars == <<ln, conns, closing>>

lockVars == <<mu, calls>>

-----------------------------------------------------------------------------
(* Strings *)

Max(a, b) == IF a >= b THEN a ELSE b

Digits == {"0", "1", "2", "3", "4", "5", "6", "7", "8", "9"}

\* s[a:b] of Go: the bytes a .. b-1 (0-based)
Slice(s, a, b) == SubSeq(s, a + 1, b)

HasSuffix(s, suf) ==
    /\ Len(s) >= Len(suf)
    /\ SubSeq(s, Len(s) - Len(suf) + 1, Len(s)) = suf

RECURSIVE ReplaceAll(_, _, _)
\* strings.Replace(s, old, new, -1), old not empty: every non-overlapping
\* occurrence of old, from the left
ReplaceAll(s, old, new) ==
    IF Len(s) < Len(old) THEN s
    ELSE IF SubSeq(s, 1, Len(old)) = old
         THEN new \o ReplaceAll(SubSeq(s, Len(old) + 1, Len(s)), old, new)
         ELSE <<Head(s)>> \o ReplaceAll(Tail(s), old, new)

\* the two hexadecimal digits url.QueryEscape writes for a byte that it escapes
EscapeHex(ch) ==
    CASE ch = "/"  -> <<"2", "F">>
      [] ch = "<"  -> <<"3", "C">>
      [] ch = ">"  -> <<"3", "E">>
      [] ch = ":"  -> <<"3", "A">>
      [] ch = ","  -> <<"2", "C">>
      [] ch = "?"  -> <<"3", "F">>
      [] ch = "#"  -> <<"2", "3">>
      [] ch = "*"  -> <<"2", "A">>
      [] ch = "+"  -> <<"2", "B">>
      [] ch = "\\" -> <<"5", "C">>
      [] ch = "%"  -> <<"2", "5">>

Escaped == {"/", "<", ">", ":", ",", "?", "#", "*", "+", "\\", "%"}

RECURSIVE QueryEscape(_)
\* url.QueryEscape: letters, digits and - _ . ~ are kept, a space becomes +,
\* every other byte becomes %XX
QueryEscape(s) ==
    IF s = <<>> THEN <<>>
    ELSE (IF Head(s) \in Escaped THEN <<"%">> \o EscapeHex(Head(s))
          ELSE IF Head(s) = " " THEN <<"+">>
          ELSE <<Head(s)>>) \o QueryEscape(Tail(s))

-----------------------------------------------------------------------------
(* Route templates *)

\* a buildURLTemplate that keeps the pattern as it is
buildURLTemplate_keepsRegex(path) == path

RECURSIVE FirstColon(_, _, _)
\* the inner loop of buildURLTemplate: the first j in from .. to-1 with
\* path[j] = ':', or to when there is none
FirstColon(path, from, to) ==
    IF from >= to THEN to
    ELSE IF path[from + 1] = ":" THEN from
    ELSE FirstColon(path, from + 1, to)

RECURSIVE buildLoop(_, _, _)
\* the outer loop of buildURLTemplate from index i, st = [template, start, end]
buildLoop(path, i, st) ==
    IF i >= Len(path) THEN st
    ELSE IF path[i + 1] = "<" /\ st.start < 0
         THEN buildLoop(path, i + 1, [st EXCEPT !.start = i])
    ELSE IF path[i + 1] = ">" /\ st.start >= 0
         THEN LET name == Slice(path, st.start + 1, FirstColon(path, st.start + 1, i))
              IN buildLoop(path, i + 1,
                     [template |-> st.template \o Slice(path, st.end + 1, st.start)
                                        \o <<"<">> \o name \o <<">">>,
                      start |-> -1,
                      end |-> i])
    ELSE buildLoop(path, i + 1, st)

\* a buildURLTemplate that forgets the text after the last token
buildURLTemplate_dropsTail(path) ==
    LET st == buildLoop(path, 0, [template |-> <<>>, start |-> -1, end |-> -1])
    IN IF st.end < 0 THEN path ELSE st.template

\* buildURLTemplate(path): the pattern with the regular expressions removed
buildURLTemplate(path) ==
    LET st == buildLoop(path, 0, [template |-> <<>>, start |-> -1, end |-> -1])
    IN IF st.end < 0 THEN path
       ELSE IF st.end < Len(path) - 1
            THEN st.template \o Slice(path, st.end + 1, Len(path))
            ELSE st.template

RECURSIVE urlLoop_skipsLoneName(_, _, _)
\* a URL loop that leaves the token of a name without a value alone
urlLoop_skipsLoneName(s, pairs, i) ==
    IF i >= Len(pairs) - 1 THEN s
    ELSE urlLoop_skipsLoneName(
             ReplaceAll(s, <<"<">> \o pairs[i + 1] \o <<">">>, QueryEscape(pairs[i + 2])),
             pairs, i + 1)

RECURSIVE urlLoop(_, _, _)
\* the loop of Route.URL from index i (0-based) over pairs
urlLoop(s, pairs, i) ==
    IF i >= Len(pairs) THEN s
    ELSE LET name == <<"<">> \o pairs[i + 1] \o <<">">>
             value == IF i < Len(pairs) - 1 THEN QueryEscape(pairs[i + 2]) ELSE <<>>
         IN urlLoop(ReplaceAll(s, name, value), pairs, i + 1)

\* Route.URL(pairs...) of a route with the given template
URL(template, pairs) == urlLoop(template, pairs, 0)

\* combineHandlers that puts the second list first
combineHandlers_swapped(h1, h2) == h2 \o h1

\* combineHandlers(h1, h2): a new list, h1 then h2
combineHandlers(h1, h2) == h1 \o h2

-----------------------------------------------------------------------------
(* routeStore: one per method.  A store is the sequence of its entries in   *)
(* insertion order, each [key, data, pnames, rid]: the compiled pattern,    *)
(* the handler chain, the parameter names leading to it, and (for the       *)
(* properties only) the number of the registration that added it.           *)

RECURSIVE IndexOf(_, _, _)
\* the least i >= from with s[i] = ch, or 0
IndexOf(s, ch, from) ==
    IF from > Len(s) THEN 0
    ELSE IF s[from] = ch THEN from
    ELSE IndexOf(s, ch, from + 1)

RECURSIVE parsePattern(_)
\* the tokens of a pattern: literal bytes [lit] and parameters [name, regex],
\* regex = <<>> for <name>
parsePattern(key) ==
    IF key = <<>> THEN <<>>
    ELSE LET close == IndexOf(key, ">", 2)
         IN IF Head(key) = "<" /\ close > 0
            THEN LET inner == SubSeq(key, 2, close - 1)
                     colon == IndexOf(inner, ":", 1)
                     tok == IF colon = 0
                            THEN [lit |-> "", name |-> inner, regex |-> <<>>]
                            ELSE [lit |-> "", name |-> SubSeq(inner, 1, colon - 1),
                                  regex |-> SubSeq(inner, colon + 1, Len(inner))]
                 IN <<tok>> \o parsePattern(SubSeq(key, close + 1, Len(key)))
            ELSE <<[lit |-> Head(key), name |-> <<>>, regex |-> <<>>]>>
                     \o parsePattern(Tail(key))

RECURSIVE RunLen(_, _)
\* the length of the longest prefix of key made of bytes of the set
RunLen(key, set) ==
    IF key = <<>> \/ Head(key) \notin set THEN 0 ELSE 1 + RunLen(Tail(key), set)

RECURSIVE SegmentLen(_)
\* the length of the longest prefix of key without a '/'
SegmentLen(key) ==
    IF key = <<>> \/ Head(key) = "/" THEN 0 ELSE 1 + SegmentLen(Tail(key))

RegexDigits == <<"\\", "d", "+">>
RegexAny == <<".", "*">>

\* how many bytes of key a parameter token consumes, -1 when it cannot match:
\* <name> takes the maximal run of non-'/' bytes, <name:regex> the longest
\* prefix its regex accepts (\d+ and .* are the regexes modelled)
consume(tok, key) ==
    IF tok.regex = <<>> THEN SegmentLen(key)
    ELSE IF tok.regex = RegexAny THEN Len(key)
    ELSE IF tok.regex = RegexDigits
         THEN (IF RunLen(key, Digits) = 0 THEN -1 ELSE RunLen(key, Digits))
    ELSE -1

RECURSIVE matchTokens(_, _)
\* walks the path along the tokens: [ok, values]
matchTokens(toks, key) ==
    IF toks = <<>> THEN [ok |-> key = <<>>, values |-> <<>>]
    ELSE LET t == Head(toks)
         IN IF t.lit # ""
            THEN (IF key # <<>> /\ Head(key) = t.lit
                  THEN matchTokens(Tail(toks), Tail(key))
                  ELSE [ok |-> FALSE, values |-> <<>>])
            ELSE LET n == consume(t, key)
                 IN IF n < 0 THEN [ok |-> FALSE, values |-> <<>>]
                    ELSE LET r == matchTokens(Tail(toks), SubSeq(key, n + 1, Len(key)))
                         IN [ok |-> r.ok, values |-> <<SubSeq(key, 1, n)>> \o r.values]

\* whether the pattern matches the whole path
Matches(pattern, path) == matchTokens(parsePattern(pattern), path).ok

RECURSIVE paramNames(_)
paramNames(toks) ==
    IF toks = <<>> THEN <<>>
    ELSE (IF Head(toks).lit = "" THEN <<Head(toks).name>> ELSE <<>>)
             \o paramNames(Tail(toks))

newStore == <<>>

RECURSIVE maxPnames(_)
maxPnames(store) ==
    IF store = <<>> THEN 0 ELSE Max(Len(Head(store).pnames), maxPnames(Tail(store)))

\* an Add that puts the data in the place of what the key was added with before
storeAdd_replaces(store, key, data, rid) ==
    LET e == [key |-> key, data |-> data,
              pnames |-> paramNames(parsePattern(key)), rid |-> rid]
        s == IF \E i \in 1..Len(store) : store[i].key = key
             THEN [i \in 1..Len(store) |-> IF store[i].key = key THEN e ELSE store[i]]
             ELSE Append(store, e)
    IN [store |-> s, n |-> maxPnames(s)]

\* store.Add(key, data): the store with the entry added, and the largest
\* number of parameters of any of its routes
storeAdd(store, key, data, rid) ==
    LET s == Append(store, [key |-> key, data |-> data,
                            pnames |-> paramNames(parsePattern(key)), rid |-> rid])
    IN [store |-> s, n |-> maxPnames(s)]

RECURSIVE firstMatch_lastInserted(_, _, _)
\* a Get that lets the entry inserted last win
firstMatch_lastInserted(store, path, i) ==
    IF i > Len(store) THEN 0
    ELSE LET later == firstMatch_lastInserted(store, path, i + 1)
         IN IF later # 0 THEN later
            ELSE IF Matches(store[i].key, path) THEN i
            ELSE 0

RECURSIVE firstMatch(_, _, _)
\* the index of the entry inserted first among those matching path, or 0
firstMatch(store, path, i) ==
    IF i > Len(store) THEN 0
    ELSE IF Matches(store[i].key, path) THEN i
    ELSE firstMatch(store, path, i + 1)

\* store.Get(path, pvalues): the data of the entry inserted first among those
\* that match, its parameter names, and the values written into pvalues.
\* Writing a value beyond the length of pvalues panics.
storeGet(store, path, pvalues) ==
    LET i == firstMatch(store, path, 1)
    IN IF i = 0
       THEN [found |-> FALSE, data |-> <<>>, pnames |-> <<>>, pvalues |-> pvalues,
             rid |-> 0, panic |-> FALSE]
       ELSE LET vals == matchTokens(parsePattern(store[i].key), path).values
            IN IF Len(vals) > Len(pvalues)
               THEN [found |-> FALSE, data |-> <<>>, pnames |-> <<>>,
                     pvalues |-> pvalues, rid |-> store[i].rid, panic |-> TRUE]
               ELSE [found |-> TRUE, data |-> store[i].data, pnames |-> store[i].pnames,
                     pvalues |-> [k \in 1..Len(pvalues) |->
                                     IF k <= Len(vals) THEN vals[k] ELSE pvalues[k]],
                     rid |-> store[i].rid, panic |-> FALSE]

-----------------------------------------------------------------------------
(* Handlers and the Context *)

StatusOK == 200
StatusMovedPermanently == 301
StatusTemporaryRedirect == 307
StatusNotFound == 404
StatusMethodNotAllowed == 405

\* Methods: the HTTP methods the Engine supports
Methods == <<"HEAD", "GET", "POST", "CONNECT", "DELETE", "OPTIONS", "PATCH", "PUT", "TRACE">>

\* a user handler: tag names it, ops is the sequence of Context calls of its body
H(tag, ops) == [tag |-> tag, ops |-> ops]

MNA == H("MethodNotAllowedHandler", <<>>)
NF == H("NotFoundHandler", <<>>)

\* what the properties observe of a run: which handler position did what, and
\* the abort flag right after it
Ev(ev, pos, c) == [ev |-> ev, pos |-> pos, ab |-> c.aborted]

Log(c, ev, pos) == [c EXCEPT !.trace = Append(@, Ev(ev, pos, c))]

\* the Context pool.New makes: pvalues sized by the engine's maxParams of the
\* moment, every other field its zero value. data is the address of the
\* Context's dataMap (0: nil); mem is the data maps by address as the
\* operators on a Context read and change them, <<>> in a Context at rest.
\* pvalues is a slice: pbuf names the array behind it (for the Contexts of
\* concurrent requests the address of the Context it was made for), and
\* pvalues shows the contents of that array
NewContext ==
    [handlers |-> <<>>, index |-> 0, aborted |-> FALSE,
     pnames |-> <<>>, pvalues |-> [k \in 1..maxParams |-> <<>>], pbuf |-> 0,
     data |-> 0, mem |-> <<>>, Serialize |-> "nil",
     method |-> "", path |-> <<>>, rts |-> FALSE, auth |-> <<>>, wwwAuth |-> "",
     status |-> 0, allow |-> <<>>, location |-> <<>>, body |-> <<>>,
     trace |-> <<>>]

\* the Context with the data maps in view, and the Context at rest
load(c, maps) == [c EXCEPT !.mem = maps]
unload(c) == [c EXCEPT !.mem = <<>>]

\* newDataMap(): an empty map
newDataMap == <<>>

\* the address of a new object: one that no live reference holds
newAddress(live) == CHOOSE a \in 1..(Cardinality(live) + 1) :
                       a \notin live /\ \A b \in 1..(a - 1) : b \in live

\* the memory with a new object at the address
allocate(mem, a, obj) ==
    [b \in 1..Max(Len(mem), a) |-> IF b = a THEN obj ELSE mem[b]]

\* the nil interface value; the items stored are strings that are not empty
Nil == <<>>

\* c.data.Get(name): the item, nil when there is none
Get(c, name) ==
    IF name \in DOMAIN c.mem[c.data] THEN c.mem[c.data][name] ELSE Nil

\* c.data.Set(name, value)
Set(c, name, value) ==
    [c EXCEPT !.mem[c.data] = [k \in DOMAIN @ \cup {name} |->
                                  IF k = name THEN value ELSE @[k]]]

\* an init that keeps the data map the Context has
init_keepsData(c, req, a) ==
    [c EXCEPT !.method = req.method, !.path = req.path, !.rts = req.rts,
              !.auth = req.auth, !.wwwAuth = "",
              !.status = StatusOK, !.allow = <<>>, !.location = <<>>, !.body = <<>>,
              !.data = IF c.data = 0 THEN a ELSE c.data,
              !.mem = IF c.data = 0 THEN allocate(c.mem, a, newDataMap) ELSE c.mem,
              !.index = -1,
              !.Serialize = "Serialize",
              !.trace = <<>>]

\* c.init(ctx): binds the request and a fresh response (status 200, nothing
\* written), a new data map (at the address a), index -1 and the default
\* serializer
init(c, req, a) ==
    [c EXCEPT !.method = req.method, !.path = req.path, !.rts = req.rts,
              !.auth = req.auth, !.wwwAuth = "",
              !.status = StatusOK, !.allow = <<>>, !.location = <<>>, !.body = <<>>,
              !.data = a,
              !.mem = allocate(c.mem, a, newDataMap),
              !.index = -1,
              !.Serialize = "Serialize",
              !.trace = <<>>]

\* the request an empty fasthttp.RequestCtx holds
EmptyRequest == [method |-> "", path |-> <<>>, rts |-> FALSE, auth |-> <<>>]

\* a Copy that keeps the data map its init made
Copy_ownData(c, a) ==
    LET ret == init(c, EmptyRequest, a)
    IN [ret EXCEPT !.method = c.method, !.path = c.path, !.rts = c.rts,
                   !.auth = c.auth, !.wwwAuth = c.wwwAuth,
                   !.status = c.status, !.allow = c.allow,
                   !.location = c.location, !.body = c.body]

\* c.Copy(): ret := *c; ret.init(&fasthttp.RequestCtx{}) (its data map at the
\* address a); c.Request.CopyTo(&ret.Request);
\* c.Response.CopyTo(&ret.Response); ret.data = c.data
Copy(c, a) ==
    LET ret == init(c, EmptyRequest, a)
    IN [ret EXCEPT !.method = c.method, !.path = c.path, !.rts = c.rts,
                   !.auth = c.auth, !.wwwAuth = c.wwwAuth,
                   !.status = c.status, !.allow = c.allow,
                   !.location = c.location, !.body = c.body,
                   !.data = c.data]

\* Param that reads the value one slot after the name's
Param_nextSlot(c, name) ==
    IF \E i \in 1..Len(c.pnames) : c.pnames[i] = name
    THEN LET i == CHOOSE i \in 1..Len(c.pnames) :
                     /\ c.pnames[i] = name
                     /\ \A j \in 1..(i - 1) : c.pnames[j] # name
         IN IF i + 1 <= Len(c.pvalues) THEN c.pvalues[i + 1] ELSE <<>>
    ELSE <<>>

\* c.Param(name)
Param(c, name) ==
    IF \E i \in 1..Len(c.pnames) : c.pnames[i] = name
    THEN c.pvalues[CHOOSE i \in 1..Len(c.pnames) :
                      /\ c.pnames[i] = name
                      /\ \A j \in 1..(i - 1) : c.pnames[j] # name]
    ELSE <<>>

\* c.IsAborted()
IsAborted(c) == c.aborted

\* Abort that sets the flag and leaves the cursor where it is
Abort_flagOnly(c, pos) ==
    Log([c EXCEPT !.aborted = TRUE], "abort", pos)

\* c.Abort(), called by the handler at position pos
Abort(c, pos) ==
    Log([c EXCEPT !.aborted = TRUE, !.index = Len(c.handlers)], "abort", pos)

\* c.AbortWithStatus(statusCode), called by the handler at position pos
AbortWithStatus(c, statusCode, pos) ==
    Abort([c EXCEPT !.status = statusCode], pos)

\* c.GetHeader(key): a header of the request, "" when it has none
GetHeader(c, key) ==
    IF key = "Authorization" THEN c.auth
    ELSE IF key = "Redirect-Trailing-Slash" /\ c.rts THEN <<"1">>
    ELSE <<>>

\* c.Header(key, value): sets the header of the response, removes it when the
\* value is empty
Header(c, key, value) ==
    CASE key = "WWW-Authenticate" -> [c EXCEPT !.wwwAuth = value]
      [] key = "Allow" -> [c EXCEPT !.allow = value]
      [] key = "Location" -> [c EXCEPT !.location = value]
      [] OTHER -> c

\* the byte of a character
Byte(ch) ==
    CASE ch = ":" -> 58
      [] ch = "a" -> 97
      [] ch = "b" -> 98
      [] ch = "c" -> 99
      [] ch = "d" -> 100

\* encodeStd of encoding/base64
Base64Alphabet ==
    <<"A", "B", "C", "D", "E", "F", "G", "H", "I", "J", "K", "L", "M",
      "N", "O", "P", "Q", "R", "S", "T", "U", "V", "W", "X", "Y", "Z",
      "a", "b", "c", "d", "e", "f", "g", "h", "i", "j", "k", "l", "m",
      "n", "o", "p", "q", "r", "s", "t", "u", "v", "w", "x", "y", "z",
      "0", "1", "2", "3", "4", "5", "6", "7", "8", "9", "+", "/">>

RECURSIVE EncodeBytes(_)
\* base64.StdEncoding.EncodeToString of the bytes: four characters for every
\* three bytes, the last group padded with '='
EncodeBytes(bytes) ==
    IF bytes = <<>> THEN <<>>
    ELSE LET n == Len(bytes)
             b1 == bytes[1]
             b2 == IF n >= 2 THEN bytes[2] ELSE 0
             b3 == IF n >= 3 THEN bytes[3] ELSE 0
         IN << Base64Alphabet[(b1 \div 4) + 1],
               Base64Alphabet[((b1 % 4) * 16 + (b2 \div 16)) + 1],
               IF n >= 2 THEN Base64Alphabet[((b2 % 16) * 4 + (b3 \div 64)) + 1] ELSE "=",
               IF n >= 3 THEN Base64Alphabet[(b3 % 64) + 1] ELSE "=" >>
            \o EncodeBytes(SubSeq(bytes, 4, n))

EncodeToString(str) == EncodeBytes([k \in 1..Len(str) |-> Byte(str[k])])

\* "Basic " + base64.StdEncoding.EncodeToString([]byte(user + ":" + password))
BasicValue(user, password) ==
    <<"B", "a", "s", "i", "c", " ">> \o EncodeToString(user \o <<":">> \o password)

\* processAccounts(accounts...) for an even number of strings whose users are
\* not empty: the pairs of header value and user, in order
processAccounts(accounts) ==
    [k \in 1..(Len(accounts) \div 2) |->
        [Value |-> BasicValue(accounts[2 * k - 1], accounts[2 * k]),
         User |-> accounts[2 * k - 1]]]

\* authPairs.search(authValue): the user of the first pair with the value
search(a, authValue) ==
    IF authValue = <<>> \/ \A k \in 1..Len(a) : a[k].Value # authValue
    THEN [user |-> <<>>, found |-> FALSE]
    ELSE [user |-> a[CHOOSE k \in 1..Len(a) :
                        /\ a[k].Value = authValue
                        /\ \A j \in 1..(k - 1) : a[j].Value # authValue].User,
          found |-> TRUE]

\* AuthUserKey
AuthUserKey == "basicAuthUuser"

\* the handler BasicAuth(accounts...) returns; ops holds the pairs it captured
BasicAuth(accounts) == [tag |-> "BasicAuth", ops |-> processAccounts(accounts)]

\* the handler BasicAuth returns, called with c
BasicAuthHandler(pairs, c) ==
    LET r == search(pairs, GetHeader(c, "Authorization"))
    IN IF ~r.found
       THEN AbortWithStatus(Header(c, "WWW-Authenticate",
                                   "Basic realm=Authorization Required"),
                            401, c.index)
       ELSE Set(c, AuthUserKey, r.user)

\* c.String(statusCode, text)
String(c, statusCode, text) ==
    [c EXCEPT !.status = statusCode, !.body = Append(@, text)]

\* c.Redirect(statusCode, uri)
Redirect(c, statusCode, uri) ==
    [c EXCEPT !.status = statusCode, !.location = uri]

\* the byte order of the names a store can be registered under (sort.Strings)
Lexicographic ==
    <<"CONNECT", "DELETE", "GET", "HEAD", "OPTIONS", "PATCH", "POST", "PUT", "TRACE",
      "WEBSOCKET">>

\* sort.Strings of the keys of a map of names
sortStrings(set) == SelectSeq(Lexicographic, LAMBDA m : m \in set)

RECURSIVE Join(_, _)
\* strings.Join(ms, sep), as the sequence of its pieces
Join(ms, sep) ==
    IF Len(ms) <= 1 THEN ms
    ELSE <<Head(ms), sep>> \o Join(Tail(ms), sep)

\* engine.findAllowedMethods(path): the names of the stores that match path
findAllowedMethods(path) ==
    {m \in DOMAIN stores :
        storeGet(stores[m], path, [k \in 1..maxParams |-> <<>>]).found}

\* MethodNotAllowedHandler that writes the answer and does not abort
MethodNotAllowedHandler_noAbort(c) ==
    LET methods == findAllowedMethods(c.path)
    IN IF methods = {} THEN c
       ELSE LET ms == sortStrings(methods \cup {"OPTIONS"})
                c1 == [c EXCEPT !.allow = Join(ms, ", ")]
            IN IF c.method # "OPTIONS"
               THEN [c1 EXCEPT !.status = StatusMethodNotAllowed]
               ELSE c1

\* MethodNotAllowedHandler(c)
MethodNotAllowedHandler(c) ==
    LET methods == findAllowedMethods(c.path)
    IN IF methods = {} THEN c
       ELSE LET ms == sortStrings(methods \cup {"OPTIONS"})
                c1 == [c EXCEPT !.allow = Join(ms, ", ")]
                c2 == IF c.method # "OPTIONS"
                      THEN [c1 EXCEPT !.status = StatusMethodNotAllowed]
                      ELSE c1
            IN Abort(c2, c2.index)

\* the path redirectTrailingSlash probes: the trailing slash removed from a
\* path longer than "/", added to any other
toggleSlash(path) ==
    IF Len(path) > 1 /\ path[Len(path)] = "/"
    THEN SubSeq(path, 1, Len(path) - 1)
    ELSE Append(path, "/")

\* redirectTrailingSlash that does not look at the Redirect-Trailing-Slash
\* header of the request
redirectTrailingSlash_anyRequest(c) ==
    LET statusCode == IF c.method # "GET" THEN StatusTemporaryRedirect
                      ELSE StatusMovedPermanently
        path == toggleSlash(c.path)
    IN IF findAllowedMethods(path) = {} THEN [ok |-> FALSE, c |-> c]
       ELSE [ok |-> TRUE, c |-> Redirect(c, statusCode, path)]

\* redirectTrailingSlash that answers every method with 301
redirectTrailingSlash_permanent(c) ==
    IF c.rts THEN [ok |-> FALSE, c |-> c]
    ELSE LET path == toggleSlash(c.path)
         IN IF findAllowedMethods(path) = {} THEN [ok |-> FALSE, c |-> c]
            ELSE [ok |-> TRUE, c |-> Redirect(c, StatusMovedPermanently, path)]

\* redirectTrailingSlash(c): [ok, c]
redirectTrailingSlash(c) ==
    IF c.rts THEN [ok |-> FALSE, c |-> c]
    ELSE LET statusCode == IF c.method # "GET" THEN StatusTemporaryRedirect
                           ELSE StatusMovedPermanently
             path == toggleSlash(c.path)
         IN IF findAllowedMethods(path) = {} THEN [ok |-> FALSE, c |-> c]
            ELSE [ok |-> TRUE, c |-> Redirect(c, statusCode, path)]

\* NotFoundHandler(c)
NotFoundHandler(c) ==
    IF RedirectTrailingSlash /\ redirectTrailingSlash(c).ok
    THEN redirectTrailingSlash(c).c
    ELSE String(c, StatusNotFound, "Not Found")

-----------------------------------------------------------------------------
(* The pipeline *)

RECURSIVE Next(_, _)

RECURSIVE runOps(_, _, _)
\* the body of the user handler at position pos, from its first remaining call
runOps(ops, pos, c) ==
    IF ops = <<>> THEN c
    ELSE runOps(Tail(ops), pos,
                IF Head(ops) = "next" THEN Next(c, pos)
                ELSE IF Head(ops) = "abort" THEN Abort(c, pos)
                ELSE c)

\* c.handlers[c.index](c)
callHandler(c) ==
    LET pos == c.index
        h == c.handlers[pos + 1]
        c1 == Log(c, "call", pos)
        c2 == IF h = MNA THEN MethodNotAllowedHandler(c1)
              ELSE IF h = NF THEN NotFoundHandler(c1)
              ELSE IF h.tag = "BasicAuth" THEN BasicAuthHandler(h.ops, c1)
              ELSE runOps(h.ops, pos, c1)
    IN Log(c2, "ret", pos)

\* a Next whose loop body runs once: one handler, then return
nextLoop_once(c) ==
    IF c.index < Len(c.handlers)
    THEN [callHandler(c) EXCEPT !.index = @ + 1]
    ELSE c

RECURSIVE nextLoop_localCursor(_)
\* a Next whose loop counts in a variable of its own and writes it back to
\* the cursor, whatever the handler did to the cursor
nextLoop_localCursor(c) ==
    IF c.index < Len(c.handlers)
    THEN LET c1 == callHandler(c)
         IN nextLoop_localCursor([c1 EXCEPT !.index = c.index + 1])
    ELSE c

RECURSIVE nextLoop(_)
\* for n := len(c.handlers); c.index < n; c.index++ { c.handlers[c.index](c) }
nextLoop(c) ==
    IF c.index < Len(c.handlers)
    THEN LET c1 == callHandler(c)
         IN nextLoop([c1 EXCEPT !.index = @ + 1])
    ELSE c

\* c.Next(), called by the handler at position caller (-1: by HandleRequest)
Next(c, caller) ==
    LET c1 == Log([c EXCEPT !.index = @ + 1], "next", caller)
    IN Log(nextLoop(c1), "nextret", caller)

-----------------------------------------------------------------------------
(* The engine *)

RECURSIVE entryCount(_, _)
\* how many entries the stores of the given methods hold
entryCount(ss, ms) ==
    IF ms = {} THEN 0
    ELSE LET m == CHOOSE x \in ms : TRUE
         IN Len(ss[m]) + entryCount(ss, ms \ {m})

\* an add that makes a store for the method whether it has one or not
add_newStore(e, method, path, handlers) ==
    LET r == storeAdd(newStore, path, handlers, entryCount(e.stores, DOMAIN e.stores) + 1)
    IN [stores |-> [m \in DOMAIN e.stores \cup {method} |->
                       IF m = method THEN r.store ELSE e.stores[m]],
        maxParams |-> IF r.n > e.maxParams THEN r.n ELSE e.maxParams]

\* an add that takes over what Add returned, larger or not
add_lastReturned(e, method, path, handlers) ==
    LET had == method \in DOMAIN e.stores
        store == IF had THEN e.stores[method] ELSE newStore
        r == storeAdd(store, path, handlers, entryCount(e.stores, DOMAIN e.stores) + 1)
    IN [stores |-> [m \in DOMAIN e.stores \cup {method} |->
                       IF m = method THEN r.store ELSE e.stores[m]],
        maxParams |-> r.n]

\* engine.add(method, path, handlers) on e = [stores, maxParams]: the method's
\* store is created when there is none, the path is added to it, and
\* maxParams is raised to what Add returns when that is larger
add(e, method, path, handlers) ==
    LET had == method \in DOMAIN e.stores
        store == IF had THEN e.stores[method] ELSE newStore
        r == storeAdd(store, path, handlers, entryCount(e.stores, DOMAIN e.stores) + 1)
    IN [stores |-> [m \in DOMAIN e.stores \cup {method} |->
                       IF m = method THEN r.store ELSE e.stores[m]],
        maxParams |-> IF r.n > e.maxParams THEN r.n ELSE e.maxParams]

\* find that hands the store a copy of the value buffer
find_copiesBuffer(method, path, pvalues) ==
    LET g == IF method \in DOMAIN stores
             THEN storeGet(stores[method], path, pvalues)
             ELSE [found |-> FALSE, data |-> <<>>, pnames |-> <<>>,
                   pvalues |-> pvalues, rid |-> 0, panic |-> FALSE]
    IN IF g.found
       THEN [handlers |-> g.data, pnames |-> g.pnames, pvalues |-> pvalues,
             rid |-> g.rid, panic |-> FALSE]
       ELSE [handlers |-> notFoundHandlers, pnames |-> g.pnames, pvalues |-> pvalues,
             rid |-> 0, panic |-> g.panic]

\* find whose fallback is the NotFound handlers without the Use handlers
find_fallbackWithoutUse(method, path, pvalues) ==
    LET g == IF method \in DOMAIN stores
             THEN storeGet(stores[method], path, pvalues)
             ELSE [found |-> FALSE, data |-> <<>>, pnames |-> <<>>,
                   pvalues |-> pvalues, rid |-> 0, panic |-> FALSE]
    IN IF g.found
       THEN [handlers |-> g.data, pnames |-> g.pnames, pvalues |-> g.pvalues,
             rid |-> g.rid, panic |-> FALSE]
       ELSE [handlers |-> notFound, pnames |-> g.pnames, pvalues |-> g.pvalues,
             rid |-> 0, panic |-> g.panic]

\* engine.find(method, path, pvalues): the chain of the method's store when it
\* matches, the not-found chain otherwise
find(method, path, pvalues) ==
    LET g == IF method \in DOMAIN stores
             THEN storeGet(stores[method], path, pvalues)
             ELSE [found |-> FALSE, data |-> <<>>, pnames |-> <<>>,
                   pvalues |-> pvalues, rid |-> 0, panic |-> FALSE]
    IN IF g.found
       THEN [handlers |-> g.data, pnames |-> g.pnames, pvalues |-> g.pvalues,
             rid |-> g.rid, panic |-> FALSE]
       ELSE [handlers |-> notFoundHandlers, pnames |-> g.pnames, pvalues |-> g.pvalues,
             rid |-> 0, panic |-> g.panic]

\* find of the engine with protocol-upgrade routes (engine.go 184-200): the
\* chain of the method's store when it matches; for GET the chain of the
\* WEBSOCKET store when that matches, with ws = TRUE; the not-found chain
\* otherwise
findUpgrade(method, path, pvalues) ==
    LET none == [found |-> FALSE, data |-> <<>>, pnames |-> <<>>,
                 pvalues |-> pvalues, rid |-> 0, panic |-> FALSE]
        g == IF method \in DOMAIN stores
             THEN storeGet(stores[method], path, pvalues)
             ELSE none
        w == IF method = "GET" /\ ~g.found /\ ~g.panic /\ "WEBSOCKET" \in DOMAIN stores
             THEN storeGet(stores["WEBSOCKET"], path, g.pvalues)
             ELSE none
    IN IF g.found
       THEN [handlers |-> g.data, pnames |-> g.pnames, pvalues |-> g.pvalues,
             rid |-> g.rid, ws |-> FALSE, panic |-> FALSE]
       ELSE IF w.found
       THEN [handlers |-> w.data, pnames |-> w.pnames, pvalues |-> w.pvalues,
             rid |-> w.rid, ws |-> TRUE, panic |-> FALSE]
       ELSE [handlers |-> notFoundHandlers,
             pnames |-> IF method = "GET" /\ "WEBSOCKET" \in DOMAIN stores
                        THEN w.pnames ELSE g.pnames,
             pvalues |-> IF method = "GET" /\ "WEBSOCKET" \in DOMAIN stores /\ ~g.panic
                         THEN w.pvalues ELSE g.pvalues,
             rid |-> 0, ws |-> FALSE, panic |-> g.panic \/ w.panic]

WildcardToken == <<"<", ":", ".", "*", ">">>

\* a newRoute that takes the name after rewriting the asterisk
newRoute_nameAfterRewrite(path, g) ==
    LET name == groups[g].path \o path
        full == IF HasSuffix(name, <<"*">>)
                THEN SubSeq(name, 1, Len(name) - 1) \o WildcardToken
                ELSE name
    IN [group |-> g, name |-> full, path |-> full, template |-> buildURLTemplate(full)]

\* newRoute(path, group): the Route object
newRoute(path, g) ==
    LET name == groups[g].path \o path
        full == IF HasSuffix(name, <<"*">>)
                THEN SubSeq(name, 1, Len(name) - 1) \o WildcardToken
                ELSE name
    IN [group |-> g, name |-> name, path |-> full, template |-> buildURLTemplate(full)]

\* r.add(method, handlers) on e = [stores, maxParams]
routeAdd(e, r, method, handlers) ==
    add(e, method, r.path, combineHandlers(groups[r.group].handlers, handlers))

\* a To that registers the first of the methods only
routeTo_firstOnly(e, r, methods, handlers) ==
    IF methods = <<>> THEN e
    ELSE routeAdd(e, r, Head(methods), handlers)

RECURSIVE routeTo(_, _, _, _)
\* r.To(methods, handlers), methods already split at the commas
routeTo(e, r, methods, handlers) ==
    IF methods = <<>> THEN e
    ELSE routeTo(routeAdd(e, r, Head(methods), handlers), r, Tail(methods), handlers)

engineVars == <<groups, routeObjs, routes, stores, maxParams, notFound,
                notFoundHandlers, RedirectTrailingSlash>>

\* engine.Use(handlers...)
EngineUse(hs) ==
    /\ ~crashed
    /\ groups' = [groups EXCEPT ![1].handlers = @ \o hs]
    /\ notFoundHandlers' = combineHandlers(groups'[1].handlers, notFound)
    /\ UNCHANGED <<listenerVars, lockVars, routeObjs, routes, stores, maxParams, notFound,
                   RedirectTrailingSlash, pool, last, crashed, urlCall, concVars>>

\* a NotFound that stores the handlers and leaves the chain for a later Use
\* to compute
EngineNotFound_keepsChain(hs) ==
    /\ ~crashed
    /\ notFound' = hs
    /\ UNCHANGED <<listenerVars, lockVars, groups, routeObjs, routes, stores, maxParams,
                   notFoundHandlers, RedirectTrailingSlash, pool, last, crashed,
                   urlCall, concVars>>

\* engine.NotFound(handlers...)
EngineNotFound(hs) ==
    /\ ~crashed
    /\ notFound' = hs
    /\ notFoundHandlers' = combineHandlers(groups[1].handlers, notFound')
    /\ UNCHANGED <<listenerVars, lockVars, groups, routeObjs, routes, stores, maxParams,
                   RedirectTrailingSlash, pool, last, crashed, urlCall, concVars>>

\* engine.RedirectTrailingSlash = b
SetRedirectTrailingSlash(b) ==
    /\ ~crashed
    /\ RedirectTrailingSlash' = b
    /\ UNCHANGED <<listenerVars, lockVars, groups, routeObjs, routes, stores, maxParams, notFound,
                   notFoundHandlers, pool, last, crashed, urlCall, concVars>>

\* group.Group(prefix, handlers...): a child group; without handlers it gets a
\* copy of the parent's handlers of the moment
GroupNew(parent, prefix, hs) ==
    /\ ~crashed
    /\ groups' = Append(groups,
                        [path |-> groups[parent].path \o prefix,
                         handlers |-> IF hs = <<>> THEN groups[parent].handlers ELSE hs])
    /\ UNCHANGED <<listenerVars, lockVars, routeObjs, routes, stores, maxParams, notFound, notFoundHandlers,
                   RedirectTrailingSlash, pool, last, crashed, urlCall, concVars>>

\* a Use that also puts the handlers in front of the chains registered so far
GroupUse_reachesRoutes(g, hs) ==
    /\ ~crashed
    /\ groups' = [groups EXCEPT ![g].handlers = @ \o hs]
    /\ stores' = [m \in DOMAIN stores |->
                    [i \in 1..Len(stores[m]) |->
                        [stores[m][i] EXCEPT !.data = hs \o @]]]
    /\ UNCHANGED <<listenerVars, lockVars, routeObjs, routes, maxParams, notFound, notFoundHandlers,
                   RedirectTrailingSlash, pool, last, crashed, urlCall, concVars>>

\* group.Use(handlers...) on a group other than the engine's own
GroupUse(g, hs) ==
    /\ ~crashed
    /\ groups' = [groups EXCEPT ![g].handlers = @ \o hs]
    /\ UNCHANGED <<listenerVars, lockVars, routeObjs, routes, stores, maxParams, notFound, notFoundHandlers,
                   RedirectTrailingSlash, pool, last, crashed, urlCall, concVars>>

\* newRoute(path, group).To(methods, handlers...), which is what the method
\* shortcuts GET, POST, ..., WEBSOCKET do with one method
RouteTo(g, path, methods, hs) ==
    /\ ~crashed
    /\ LET r == newRoute(path, g)
           e == routeTo([stores |-> stores, maxParams |-> maxParams], r, methods, hs)
       IN /\ routeObjs' = Append(routeObjs, r)
          /\ routes' = [n \in DOMAIN routes \cup {r.name} |->
                           IF n = r.name THEN Len(routeObjs) + 1 ELSE routes[n]]
          /\ stores' = e.stores
          /\ maxParams' = e.maxParams
    /\ UNCHANGED <<listenerVars, lockVars, groups, notFound, notFoundHandlers, RedirectTrailingSlash,
                   pool, last, crashed, urlCall, concVars>>

\* the addresses of the data maps that the Contexts made for concurrent
\* requests hold, the Context at the address a left out
liveData(a) == {heap[b].data : b \in (1..Len(heap)) \ {a}} \ {0}

\* engine.HandleRequest(ctx) for a request of the given method and path, with
\* or without a Redirect-Trailing-Slash header, with the given Authorization
\* header; pool.Get hands out the pooled Context (reuse) or makes a new one
HandleRequestWith(req, reuse) ==
    /\ ~crashed
    /\ reuse => pool # <<>>
    /\ \E c1 \in {init(load(IF reuse THEN pool[1] ELSE NewContext, dataMaps), req,
                       newAddress(liveData(0)))} :
       \E f \in {find(req.method, req.path, c1.pvalues)} :
          IF f.panic
          THEN /\ crashed' = TRUE
               /\ pool' = <<>>
               /\ dataMaps' = c1.mem
               /\ last' = <<[method |-> req.method, path |-> req.path, rts |-> req.rts,
                             rid |-> 0, panic |-> TRUE, c |-> c1]>>
          ELSE \E c2 \in {[c1 EXCEPT !.handlers = f.handlers, !.pnames = f.pnames,
                                     !.pvalues = f.pvalues]} :
               \E c3 \in {Next(c2, -1)} :
                  /\ crashed' = FALSE
                  /\ pool' = <<unload(c3)>>
                  /\ dataMaps' = c3.mem
                  /\ last' = <<[method |-> req.method, path |-> req.path, rts |-> req.rts,
                                rid |-> f.rid, panic |-> FALSE, c |-> c3]>>
    /\ UNCHANGED <<listenerVars, lockVars, engineVars, urlCall, heap, free, tasks>>

\* the same for a request without an Authorization header
HandleRequest(method, path, rts, reuse) ==
    HandleRequestWith([method |-> method, path |-> path, rts |-> rts, auth |-> <<>>],
                      reuse)

\* HandleRequest of the engine with protocol-upgrade routes (engine.go
\* 127-144): as above with findUpgrade; when find reports ws, fin (Next and
\* the return of the Context to the pool) is handed to c.Websocket, which
\* runs it when websocket.Upgrade succeeds (upgraded) and not at all otherwise
HandleRequestUpgrade(req, reuse, upgraded) ==
    /\ ~crashed
    /\ reuse => pool # <<>>
    /\ \E c1 \in {init(load(IF reuse THEN pool[1] ELSE NewContext, dataMaps), req,
                       newAddress(liveData(0)))} :
       \E f \in {findUpgrade(req.method, req.path, c1.pvalues)} :
          IF f.panic
          THEN /\ crashed' = TRUE
               /\ pool' = <<>>
               /\ dataMaps' = c1.mem
               /\ last' = <<[method |-> req.method, path |-> req.path, rts |-> req.rts,
                             rid |-> 0, panic |-> TRUE, ws |-> FALSE, fin |-> FALSE,
                             c |-> c1]>>
          ELSE \E c2 \in {[c1 EXCEPT !.handlers = f.handlers, !.pnames = f.pnames,
                                     !.pvalues = f.pvalues]} :
               IF f.ws /\ ~upgraded
               THEN /\ crashed' = FALSE
                    /\ pool' = IF reuse THEN <<>> ELSE pool
                    /\ dataMaps' = c2.mem
                    /\ last' = <<[method |-> req.method, path |-> req.path,
                                  rts |-> req.rts, rid |-> f.rid, panic |-> FALSE,
                                  ws |-> TRUE, fin |-> FALSE, c |-> c2]>>
               ELSE \E c3 \in {Next(c2, -1)} :
                       /\ crashed' = FALSE
                       /\ pool' = <<unload(c3)>>
                       /\ dataMaps' = c3.mem
                       /\ last' = <<[method |-> req.method, path |-> req.path,
                                     rts |-> req.rts, rid |-> f.rid, panic |-> FALSE,
                                     ws |-> f.ws, fin |-> TRUE, c |-> c3]>>
    /\ UNCHANGED <<listenerVars, lockVars, engineVars, urlCall, heap, free, tasks>>

\* a Name that moves the entry of the route map instead of adding one
Name_movesEntry(e, rt, name) ==
    [routeObjs |-> [e.routeObjs EXCEPT ![rt].name = name],
     routes |-> [n \in (DOMAIN e.routes \ {e.routeObjs[rt].name}) \cup {name} |->
                    IF n = name THEN rt ELSE e.routes[n]]]

\* r.Name(name) for the rt-th route, on e = [routeObjs, routes]
Name(e, rt, name) ==
    [routeObjs |-> [e.routeObjs EXCEPT ![rt].name = name],
     routes |-> [n \in DOMAIN e.routes \cup {name} |->
                    IF n = name THEN rt ELSE e.routes[n]]]

\* engine.Route(name): the number of the route, 0 for nil
Route(name) == IF name \in DOMAIN routes THEN routes[name] ELSE 0

\* a call r.Name(name) on the rt-th route
RouteName(rt, name) ==
    /\ ~crashed
    /\ LET e == Name([routeObjs |-> routeObjs, routes |-> routes], rt, name)
       IN /\ routeObjs' = e.routeObjs
          /\ routes' = e.routes
    /\ UNCHANGED <<listenerVars, lockVars, groups, stores, maxParams, notFound, notFoundHandlers,
                   RedirectTrailingSlash, pool, last, crashed, urlCall, concVars>>

\* a call r.URL(pairs...) on the rt-th route, its result kept for inspection
RouteURL(rt, pairs) ==
    /\ ~crashed
    /\ urlCall' = <<[route |-> rt, pairs |-> pairs,
                     result |-> URL(routeObjs[rt].template, pairs)]>>
    /\ UNCHANGED <<listenerVars, lockVars, engineVars, pool, last, crashed, concVars>>

\* how many requests are dispatched concurrently, one goroutine each
MaxRequests == 2

Tasks == 1..MaxRequests

\* HandleRequest with the Context put back before the pipeline runs
after_putFirst(pc) ==
    CASE pc = "get" -> "init"
      [] pc = "init" -> "find"
      [] pc = "find" -> "put"
      [] pc = "put" -> "next"
      [] pc = "next" -> "debug"
      [] OTHER -> "done"

\* the statement HandleRequest executes after the given one (a goroutine is at
\* the statement it executes next): pool.Get, c.init, engine.find, then
\* fin(): c.Next, pool.Put, engine.debug and DebugFunc
after(pc) ==
    CASE pc = "get" -> "init"
      [] pc = "init" -> "find"
      [] pc = "find" -> "next"
      [] pc = "next" -> "put"
      [] pc = "put" -> "debug"
      [] OTHER -> "done"

\* a goroutine that has not started its HandleRequest
IdleTask == [pc |-> "get", c |-> 0, method |-> "", path |-> <<>>,
             ops |-> <<>>, logged |-> -1, copy |-> 0, ncalls |-> 0]

\* the goroutine after executing its statement
advance(task) == [task EXCEPT !.pc = after(@), !.ops = Append(@, task.pc)]

\* c := engine.pool.Get().(*Context): a Context that was put back, or the one
\* pool.New makes
TaskGet(t, method, path) ==
    /\ ~crashed
    /\ tasks[t].pc = "get"
    /\ \E a \in free \cup {Len(heap) + 1} :
          /\ heap' = IF a \in free THEN heap
                     ELSE Append(heap, [NewContext EXCEPT !.pbuf = a])
          /\ free' = free \ {a}
          /\ tasks' = [tasks EXCEPT ![t] = [advance(@) EXCEPT !.c = a, !.method = method,
                                                               !.path = path]]
    /\ UNCHANGED <<listenerVars, lockVars, engineVars, pool, last, crashed, urlCall, dataMaps>>

\* c.init(ctx)
TaskInit(t) ==
    /\ ~crashed
    /\ tasks[t].pc = "init"
    /\ \E c1 \in {init(load(heap[tasks[t].c], dataMaps),
                       [method |-> tasks[t].method, path |-> tasks[t].path,
                        rts |-> FALSE, auth |-> <<>>],
                       newAddress(liveData(tasks[t].c)))} :
          /\ heap' = [heap EXCEPT ![tasks[t].c] = unload(c1)]
          /\ dataMaps' = c1.mem
    /\ tasks' = [tasks EXCEPT ![t] = advance(@)]
    /\ UNCHANGED <<listenerVars, lockVars, engineVars, pool, last, crashed, urlCall, free>>

\* c.handlers, c.pnames = engine.find(method, path, c.pvalues): what the
\* store writes into the array of c.pvalues shows in every Context whose
\* pvalues is a slice of that array
TaskFind(t) ==
    /\ ~crashed
    /\ tasks[t].pc = "find"
    /\ \E f \in {find(tasks[t].method, tasks[t].path, heap[tasks[t].c].pvalues)} :
          IF f.panic
          THEN /\ crashed' = TRUE
               /\ UNCHANGED <<heap, tasks>>
          ELSE /\ heap' = [b \in DOMAIN heap |->
                              IF b = tasks[t].c
                              THEN [heap[b] EXCEPT !.handlers = f.handlers,
                                                   !.pnames = f.pnames,
                                                   !.pvalues = f.pvalues]
                              ELSE IF heap[b].pbuf = heap[tasks[t].c].pbuf
                              THEN [heap[b] EXCEPT !.pvalues = f.pvalues]
                              ELSE heap[b]]
               /\ tasks' = [tasks EXCEPT ![t] = advance(@)]
               /\ UNCHANGED crashed
    /\ UNCHANGED <<listenerVars, lockVars, engineVars, pool, last, urlCall, free, dataMaps>>

\* c.Next(), the first statement of fin
TaskNext(t) ==
    /\ ~crashed
    /\ tasks[t].pc = "next"
    /\ \E c1 \in {Next(load(heap[tasks[t].c], dataMaps), -1)} :
          /\ heap' = [heap EXCEPT ![tasks[t].c] = unload(c1)]
          /\ dataMaps' = c1.mem
    /\ tasks' = [tasks EXCEPT ![t] = advance(@)]
    /\ UNCHANGED <<listenerVars, lockVars, engineVars, pool, last, crashed, urlCall, free>>

\* engine.pool.Put(c)
TaskPut(t) ==
    /\ ~crashed
    /\ tasks[t].pc = "put"
    /\ free' = free \cup {tasks[t].c}
    /\ tasks' = [tasks EXCEPT ![t] = advance(@)]
    /\ UNCHANGED <<listenerVars, lockVars, engineVars, pool, last, crashed, urlCall, heap, dataMaps>>

\* engine.debug(fmt.Sprintf(..., c.Response.StatusCode(), ...)) and
\* engine.DebugFunc(c, ...): the status is read from c as it is by now
TaskDebug(t) ==
    /\ ~crashed
    /\ tasks[t].pc = "debug"
    /\ tasks' = [tasks EXCEPT ![t] = [advance(@) EXCEPT !.logged = heap[tasks[t].c].status]]
    /\ UNCHANGED <<listenerVars, lockVars, engineVars, pool, last, crashed, urlCall, heap, free, dataMaps>>

\* how many calls the handlers of the requests make on their Contexts and on
\* the copies of them, all together
MaxCalls == 2

RECURSIVE callsOf(_)
callsOf(ts) == IF ts = {} THEN 0
               ELSE LET t == CHOOSE x \in ts : TRUE
                    IN tasks[t].ncalls + callsOf(ts \ {t})

\* the calls made so far
ncalls == callsOf(Tasks)

\* a handler of the request calls c.Set(name, value) while the pipeline runs
CallSet(t, name, value) ==
    /\ ~crashed
    /\ tasks[t].pc = "next"
    /\ ncalls < MaxCalls
    /\ \E c1 \in {Set(load(heap[tasks[t].c], dataMaps), name, value)} :
          dataMaps' = c1.mem
    /\ tasks' = [tasks EXCEPT ![t].ncalls = @ + 1]
    /\ UNCHANGED <<listenerVars, lockVars, engineVars, pool, last, crashed, urlCall, heap, free>>

\* a handler of the request sets c.Serialize to a serializer of its own
CallSerialize(t) ==
    /\ ~crashed
    /\ tasks[t].pc = "next"
    /\ ncalls < MaxCalls
    /\ heap[tasks[t].c].Serialize = "Serialize"
    /\ heap' = [heap EXCEPT ![tasks[t].c].Serialize = "custom"]
    /\ tasks' = [tasks EXCEPT ![t].ncalls = @ + 1]
    /\ UNCHANGED <<listenerVars, lockVars, engineVars, pool, last, crashed, urlCall, free, dataMaps>>

\* a handler of the request calls c.Copy() while the pipeline runs and keeps
\* the result
CallCopy(t) ==
    /\ ~crashed
    /\ tasks[t].pc = "next"
    /\ ncalls < MaxCalls
    /\ tasks[t].copy = 0
    /\ \E ret \in {Copy(load(heap[tasks[t].c], dataMaps), newAddress(liveData(0)))} :
          /\ heap' = Append(heap, unload(ret))
          /\ dataMaps' = ret.mem
    /\ tasks' = [tasks EXCEPT ![t].ncalls = @ + 1, ![t].copy = Len(heap) + 1]
    /\ UNCHANGED <<listenerVars, lockVars, engineVars, pool, last, crashed, urlCall, free>>

\* whoever holds the copy calls Set(name, value) on it, during the request or
\* after it
CallSetCopy(t, name, value) ==
    /\ ~crashed
    /\ tasks[t].copy # 0
    /\ ncalls < MaxCalls
    /\ \E c1 \in {Set(load(heap[tasks[t].copy], dataMaps), name, value)} :
          dataMaps' = c1.mem
    /\ tasks' = [tasks EXCEPT ![t].ncalls = @ + 1]
    /\ UNCHANGED <<listenerVars, lockVars, engineVars, pool, last, crashed, urlCall, heap, free>>

-----------------------------------------------------------------------------
(* The graceful listener. Every atomic operation, channel operation and     *)
(* call of the inner listener or connection is one step; a goroutine that   *)
(* closes the closed channel done panics, which ends the program.           *)

MaxConns == 2
MaxCloses == 2

\* the variables of the engine and of the requests it serves
servingVars == <<engineVars, pool, last, crashed, urlCall, concVars, lockVars>>

Conns == 1..MaxConns
CloseCalls == 1..MaxCloses

\* NewGracefulListener(ln, maxWaitTime); closes counts the close(ln.done)
\* statements executed
NewGracefulListener ==
    [inner |-> "open", done |-> "open", connsCount |-> 0, shutdown |-> 0,
     closes |-> 0, panicked |-> FALSE]

\* a connection the inner listener has not accepted yet; n is the local
\* connsCount of closeConn
NoConn == [pc |-> "none", n |-> 0]

\* a Close that has not been called yet; timer is the channel of
\* time.After(ln.maxWaitTime)
NoClose == [pc |-> "idle", err |-> FALSE, timer |-> "none"]

\* close(ln.done)
closeDone(l) ==
    IF l.done = "closed"
    THEN [l EXCEPT !.closes = @ + 1, !.panicked = TRUE]
    ELSE [l EXCEPT !.closes = @ + 1, !.done = "closed"]

\* c, err := ln.ln.Accept() with err = nil, in the one goroutine that serves
AcceptInner(i) ==
    /\ ~ln.panicked
    /\ ln.inner = "open"
    /\ conns[i].pc = "none"
    /\ \A j \in Conns : conns[j].pc # "accepted" /\ (j < i => conns[j].pc # "none")
    /\ conns' = [conns EXCEPT ![i].pc = "accepted"]
    /\ UNCHANGED <<ln, closing, servingVars>>

\* atomic.AddUint64(&ln.connsCount, 1) and the return of the gracefulConn
AcceptCount(i) ==
    /\ ~ln.panicked
    /\ conns[i].pc = "accepted"
    /\ ln' = [ln EXCEPT !.connsCount = @ + 1]
    /\ conns' = [conns EXCEPT ![i].pc = "open"]
    /\ UNCHANGED <<closing, servingVars>>

\* gracefulConn.Close: c.Conn.Close() with err = nil
ConnClose(i) ==
    /\ ~ln.panicked
    /\ conns[i].pc = "open"
    /\ conns' = [conns EXCEPT ![i].pc = "closed"]
    /\ UNCHANGED <<ln, closing, servingVars>>

\* closeConn: connsCount := atomic.AddUint64(&ln.connsCount, ^uint64(0))
closeConnAdd(i) ==
    /\ ~ln.panicked
    /\ conns[i].pc = "closed"
    /\ ln' = [ln EXCEPT !.connsCount = @ - 1]
    /\ conns' = [conns EXCEPT ![i] = [pc |-> "counted", n |-> ln.connsCount - 1]]
    /\ UNCHANGED <<closing, servingVars>>

\* closeConn: if atomic.LoadUint64(&ln.shutdown) != 0 && connsCount == 0
\* { close(ln.done) }
closeConnCheck(i) ==
    /\ ~ln.panicked
    /\ conns[i].pc = "counted"
    /\ ln' = IF ln.shutdown # 0 /\ conns[i].n = 0 THEN closeDone(ln) ELSE ln
    /\ conns' = [conns EXCEPT ![i].pc = "returned"]
    /\ UNCHANGED <<closing, servingVars>>

\* Close, waitForZeroConns: atomic.AddUint64(&ln.shutdown, 1)
CloseShutdown(k) ==
    /\ ~ln.panicked
    /\ closing[k].pc = "idle"
    /\ \A j \in CloseCalls : j < k => closing[j].pc # "idle"
    /\ ln' = [ln EXCEPT !.shutdown = @ + 1]
    /\ closing' = [closing EXCEPT ![k].pc = "load"]
    /\ UNCHANGED <<conns, servingVars>>

\* waitForZeroConns: if atomic.LoadUint64(&ln.connsCount) == 0; otherwise the
\* select is entered and the timer started
CloseLoad(k) ==
    /\ ~ln.panicked
    /\ closing[k].pc = "load"
    /\ closing' = [closing EXCEPT ![k] =
                      IF ln.connsCount = 0 THEN [@ EXCEPT !.pc = "close"]
                      ELSE [@ EXCEPT !.pc = "select", !.timer = "running"]]
    /\ UNCHANGED <<ln, conns, servingVars>>

\* maxWaitTime has passed since the select of call k was entered
TimerFires(k) ==
    /\ ~ln.panicked
    /\ closing[k].pc = "select"
    /\ closing[k].timer = "running"
    /\ closing' = [closing EXCEPT ![k].timer = "fired"]
    /\ UNCHANGED <<ln, conns, servingVars>>

\* waitForZeroConns: close(ln.done); return nil. When it panics, the deferred
\* ln.ln.Close() of Close still runs.
CloseDone(k) ==
    /\ ~ln.panicked
    /\ closing[k].pc = "close"
    /\ \E l \in {closeDone(ln)} :
          IF l.panicked
          THEN /\ ln' = [l EXCEPT !.inner = "closed"]
               /\ closing' = [closing EXCEPT ![k].pc = "panicked"]
          ELSE /\ ln' = l
               /\ closing' = [closing EXCEPT ![k].pc = "defer"]
    /\ UNCHANGED <<conns, servingVars>>

\* waitForZeroConns: case <-ln.done: return nil
CloseSelectDone(k) ==
    /\ ~ln.panicked
    /\ closing[k].pc = "select"
    /\ ln.done = "closed"
    /\ closing' = [closing EXCEPT ![k].pc = "defer"]
    /\ UNCHANGED <<ln, conns, servingVars>>

\* waitForZeroConns: case <-time.After(ln.maxWaitTime): return fmt.Errorf(...)
CloseSelectTimeout(k) ==
    /\ ~ln.panicked
    /\ closing[k].pc = "select"
    /\ closing[k].timer = "fired"
    /\ closing' = [closing EXCEPT ![k] = [@ EXCEPT !.pc = "defer", !.err = TRUE]]
    /\ UNCHANGED <<ln, conns, servingVars>>

\* Close: the deferred ln.ln.Close(), and the return
CloseDefer(k) ==
    /\ ~ln.panicked
    /\ closing[k].pc = "defer"
    /\ ln' = [ln EXCEPT !.inner = "closed"]
    /\ closing' = [closing EXCEPT ![k].pc = "returned"]
    /\ UNCHANGED <<conns, servingVars>>

-----------------------------------------------------------------------------
(* The per-method store map and its lock (storesMap.go), and the calls of   *)
(* add, find and findAllowedMethods that run at the same time.  A call is   *)
(* the list of the statements it has left; a statement is one step.         *)

MaxLockCalls == 3

LockCalls == 1..MaxLockCalls

\* the zero sync.RWMutex of newStoresMap(): no writer, no readers.  w is the
\* goroutine whose Lock() has shut the readers out (0 for none), r the
\* goroutines between RLock() and RUnlock()
newStoresMapMutex == [w |-> 0, r |-> {}]

\* a Get that reads the map without taking the lock
storesMapGet_noLock == <<"read">>

\* storesMap.Set(key, val): m.Lock() (which first shuts new readers out and
\* then waits for the readers there are), m.M[key] = val, m.Unlock()
storesMapSet == <<"Lock", "wait", "write", "Unlock">>

\* storesMap.Range(fn): m.Lock(), fn on every entry of m.M, m.Unlock()
storesMapRange == <<"Lock", "wait", "range", "Unlock">>

\* storesMap.Get(key): m.RLock(), v := m.M[key], m.RUnlock()
storesMapGet == <<"RLock", "read", "RUnlock">>

\* engine.add up to the test of what Get returned
addBody == storesMapGet \o <<"nil?">>

\* engine.add after the test: newStore() and Set when there was no store,
\* then store.Add and the update of engine.maxParams
addRest(has) == (IF has THEN <<>> ELSE storesMapSet) \o <<"Add", "max">>

\* engine.find: Get, then store.Get on what it returned
findBody == storesMapGet \o <<"storeGet">>

\* engine.findAllowedMethods: make([]string, engine.maxParams), then Range
findAllowedMethodsBody == <<"make">> \o storesMapRange

\* a goroutine that has made no call.  store is the local variable store
\* when the object it points to is not the one the map holds (holds = FALSE);
\* has tells store # nil, n is what store.Add returned, pvlen the length of
\* pvalues, found and methods are the results
NoCall ==
    [op |-> "none", todo |-> <<>>, method |-> "", path |-> <<>>,
     handlers |-> <<>>, store |-> <<>>, has |-> FALSE, holds |-> FALSE, n |-> 0,
     pvlen |-> 0, found |-> FALSE, methods |-> {}]

at(p, s) == ~crashed /\ calls[p].todo # <<>> /\ Head(calls[p].todo) = s

nextStmt(c) == [c EXCEPT !.todo = Tail(@)]

returned(p) == calls[p].op # "none" /\ calls[p].todo = <<>>

\* what the calls of the store map leave alone
lockFrame == <<listenerVars, groups, routeObjs, routes, notFound, notFoundHandlers,
               RedirectTrailingSlash, pool, last, urlCall, concVars>>

\* a goroutine calls engine.add(method, path, handlers)
CallAdd(p, method, path, handlers) ==
    /\ ~crashed
    /\ calls[p].op = "none"
    /\ calls' = [calls EXCEPT ![p] = [NoCall EXCEPT !.op = "add", !.todo = addBody,
                                             !.method = method, !.path = path,
                                             !.handlers = handlers]]
    /\ UNCHANGED <<lockFrame, stores, maxParams, crashed, mu>>

\* a goroutine calls engine.find(method, path, pvalues) with the pvalues of a
\* Context pool.New has just made
CallFind(p, method, path) ==
    /\ ~crashed
    /\ calls[p].op = "none"
    /\ calls' = [calls EXCEPT ![p] = [NoCall EXCEPT !.op = "find", !.todo = findBody,
                                             !.method = method, !.path = path,
                                             !.pvlen = maxParams]]
    /\ UNCHANGED <<lockFrame, stores, maxParams, crashed, mu>>

\* a goroutine calls engine.findAllowedMethods(path)
CallFindAllowedMethods(p, path) ==
    /\ ~crashed
    /\ calls[p].op = "none"
    /\ calls' = [calls EXCEPT ![p] = [NoCall EXCEPT !.op = "findAllowedMethods",
                                             !.todo = findAllowedMethodsBody,
                                             !.path = path]]
    /\ UNCHANGED <<lockFrame, stores, maxParams, crashed, mu>>

\* m.RLock(): blocks while a writer has shut the readers out
StmtRLock(p) ==
    /\ at(p, "RLock")
    /\ mu.w = 0
    /\ mu' = [mu EXCEPT !.r = @ \cup {p}]
    /\ calls' = [calls EXCEPT ![p] = nextStmt(@)]
    /\ UNCHANGED <<lockFrame, stores, maxParams, crashed>>

\* v := m.M[key]
StmtRead(p) ==
    /\ at(p, "read")
    /\ calls' = [calls EXCEPT ![p] = [nextStmt(@) EXCEPT
                                         !.has = calls[p].method \in DOMAIN stores,
                                         !.holds = calls[p].method \in DOMAIN stores]]
    /\ UNCHANGED <<lockFrame, stores, maxParams, crashed, mu>>

\* m.RUnlock(): a fatal error when the caller does not have the read lock
StmtRUnlock(p) ==
    /\ at(p, "RUnlock")
    /\ IF p \in mu.r
       THEN /\ mu' = [mu EXCEPT !.r = @ \ {p}]
            /\ calls' = [calls EXCEPT ![p] = nextStmt(@)]
            /\ UNCHANGED crashed
       ELSE /\ crashed' = TRUE
            /\ UNCHANGED <<mu, calls>>
    /\ UNCHANGED <<lockFrame, stores, maxParams>>

\* m.Lock(), first half: blocks while another writer has the lock, then
\* shuts new readers out
StmtLock(p) ==
    /\ at(p, "Lock")
    /\ mu.w = 0
    /\ mu' = [mu EXCEPT !.w = p]
    /\ calls' = [calls EXCEPT ![p] = nextStmt(@)]
    /\ UNCHANGED <<lockFrame, stores, maxParams, crashed>>

\* m.Lock(), second half: blocks until the readers there were have left
StmtWait(p) ==
    /\ at(p, "wait")
    /\ mu.r = {}
    /\ calls' = [calls EXCEPT ![p] = nextStmt(@)]
    /\ UNCHANGED <<lockFrame, stores, maxParams, crashed, mu>>

\* m.M[key] = val: the map holds the caller's store from now on, and the
\* goroutines that got the store it held before are left with that one
StmtWrite(p) ==
    /\ at(p, "write")
    /\ stores' = [m \in DOMAIN stores \cup {calls[p].method} |->
                     IF m = calls[p].method THEN calls[p].store ELSE stores[m]]
    /\ calls' = [q \in LockCalls |->
                    IF q = p
                    THEN [nextStmt(calls[p]) EXCEPT !.has = TRUE, !.holds = TRUE]
                    ELSE IF calls[q].holds /\ calls[q].method = calls[p].method
                    THEN [calls[q] EXCEPT !.holds = FALSE,
                                          !.store = stores[calls[p].method]]
                    ELSE calls[q]]
    /\ UNCHANGED <<lockFrame, maxParams, crashed, mu>>

\* m.Unlock(): a fatal error when the caller does not have the lock
StmtUnlock(p) ==
    /\ at(p, "Unlock")
    /\ IF mu.w = p
       THEN /\ mu' = [mu EXCEPT !.w = 0]
            /\ calls' = [calls EXCEPT ![p] = nextStmt(@)]
            /\ UNCHANGED crashed
       ELSE /\ crashed' = TRUE
            /\ UNCHANGED <<mu, calls>>
    /\ UNCHANGED <<lockFrame, stores, maxParams>>

\* if store == nil { store = newStore(); engine.stores.Set(method, store) }
StmtNil(p) ==
    /\ at(p, "nil?")
    /\ calls' = [calls EXCEPT ![p] = [@ EXCEPT !.todo = addRest(calls[p].has),
                                               !.store = newStore]]
    /\ UNCHANGED <<lockFrame, stores, maxParams, crashed, mu>>

\* n := store.Add(path, handlers), on the store the local variable points to
StmtAdd(p) ==
    /\ at(p, "Add")
    /\ \E r \in {storeAdd(IF calls[p].holds THEN stores[calls[p].method]
                                            ELSE calls[p].store,
                          calls[p].path, calls[p].handlers,
                          entryCount(stores, DOMAIN stores) + 1)} :
          /\ stores' = IF calls[p].holds
                       THEN [stores EXCEPT ![calls[p].method] = r.store]
                       ELSE stores
          /\ calls' = [calls EXCEPT ![p] = [nextStmt(@) EXCEPT !.store = r.store,
                                                              !.n = r.n]]
    /\ UNCHANGED <<lockFrame, maxParams, crashed, mu>>

\* if n > engine.maxParams { engine.maxParams = n }
StmtMax(p) ==
    /\ at(p, "max")
    /\ maxParams' = IF calls[p].n > maxParams THEN calls[p].n ELSE maxParams
    /\ calls' = [calls EXCEPT ![p] = nextStmt(@)]
    /\ UNCHANGED <<lockFrame, stores, crashed, mu>>

\* find: if store != nil { hh, pnames = store.Get(path, pvalues) }
StmtStoreGet(p) ==
    /\ at(p, "storeGet")
    /\ \E g \in {storeGet(IF ~calls[p].has THEN newStore
                          ELSE IF calls[p].holds THEN stores[calls[p].method]
                          ELSE calls[p].store,
                          calls[p].path, [k \in 1..calls[p].pvlen |-> <<>>])} :
          IF g.panic
          THEN /\ crashed' = TRUE
               /\ UNCHANGED calls
          ELSE /\ calls' = [calls EXCEPT ![p] = [nextStmt(@) EXCEPT !.found = g.found]]
               /\ UNCHANGED crashed
    /\ UNCHANGED <<lockFrame, stores, maxParams, mu>>

\* pvalues := make([]string, engine.maxParams)
StmtMake(p) ==
    /\ at(p, "make")
    /\ calls' = [calls EXCEPT ![p] = [nextStmt(@) EXCEPT !.pvlen = maxParams]]
    /\ UNCHANGED <<lockFrame, stores, maxParams, crashed, mu>>

\* for key, value := range m.M { fn(key, value) } with the fn of
\* findAllowedMethods, which calls store.Get(path, pvalues) on every store
StmtRange(p) ==
    /\ at(p, "range")
    /\ \E gs \in {[m \in DOMAIN stores |->
                     storeGet(stores[m], calls[p].path,
                              [k \in 1..calls[p].pvlen |-> <<>>])]} :
          IF \E m \in DOMAIN gs : gs[m].panic
          THEN /\ crashed' = TRUE
               /\ UNCHANGED calls
          ELSE /\ calls' = [calls EXCEPT ![p] = [nextStmt(@) EXCEPT !.methods =
                                                    {m \in DOMAIN gs : gs[m].found}]]
               /\ UNCHANGED crashed
    /\ UNCHANGED <<lockFrame, stores, maxParams, mu>>

\* the state New() returns, with the listener NewGracefulListener returns
Init ==
    /\ groups = <<[path |-> <<>>, handlers |-> <<>>]>>
    /\ routeObjs = <<>>
    /\ routes = <<>>
    /\ stores = <<>>
    /\ maxParams = 0
    /\ notFound = <<MNA, NF>>
    /\ notFoundHandlers = <<MNA, NF>>
    /\ RedirectTrailingSlash = TRUE
    /\ pool = <<>>
    /\ last = <<>>
    /\ crashed = FALSE
    /\ urlCall = <<>>
    /\ heap = <<>>
    /\ free = {}
    /\ tasks = [t \in Tasks |-> IdleTask]
    /\ dataMaps = <<>>
    /\ ln = NewGracefulListener
    /\ conns = [i \in Conns |-> NoConn]
    /\ closing = [k \in CloseCalls |-> NoClose]
    /\ mu = newStoresMapMutex
    /\ calls = [p \in LockCalls |-> NoCall]

-----------------------------------------------------------------------------
(* Inputs *)

PathX == <<"/", "x">>
PathXSlash == <<"/", "x", "/">>
PathY == <<"/", "y">>
PathUsers42 == <<"/", "u", "s", "e", "r", "s", "/", "4", "2">>
PathUsersAbc == <<"/", "u", "s", "e", "r", "s", "/", "a", "b", "c">>
PatternUsersId ==
    <<"/", "u", "s", "e", "r", "s", "/", "<", "i", "d", ":", "\\", "d", "+", ">">>
PatternUsersName ==
    <<"/", "u", "s", "e", "r", "s", "/", "<", "n", "a", "m", "e", ">">>
PatternStar == <<"/", "*">>
NameId == <<"i", "d">>

hA == H("a", <<"next">>)
hX == H("x", <<"abort">>)
hN == H("n", <<>>)

\* the handler given to the k-th route that is registered
RouteHandlerTags == <<"h1", "h2", "h3", "h4">>
routeHandler(k) == H(RouteHandlerTags[k], <<>>)

\* registration happens at startup: before the first request is served
Startup == pool = <<>> /\ last = <<>>

\* whether the method's store already holds the pattern a route of the group
\* with this path would have
hasRoute(g, path, m) ==
    /\ m \in DOMAIN stores
    /\ \E i \in 1..Len(stores[m]) : stores[m][i].key = newRoute(path, g).path

-----------------------------------------------------------------------------
(* Spec: an engine is configured (engine-level handlers, not-found          *)
(* handlers, routes without parameters on the engine's own group) and then  *)
(* serves requests.                                                         *)

MaxRoutes == 2
MaxUse == 1

Registrations ==
    { [methods |-> <<"GET">>, path |-> PathX],
      [methods |-> <<"POST">>, path |-> PathX],
      [methods |-> <<"GET">>, path |-> PathXSlash],
      [methods |-> <<"WEBSOCKET">>, path |-> PathX] }

RequestMethods == {"GET", "POST", "OPTIONS"}
RequestPaths == {PathX, PathXSlash, PathY}

Step ==
    \/ \E hs \in {<<hA>>, <<hX>>} :
          /\ Startup
          /\ Len(groups[1].handlers) < MaxUse
          /\ EngineUse(hs)
    \/ \E hs \in {<<MNA, NF>>, <<hN>>} :
          /\ Startup
          /\ notFound # hs
          /\ EngineNotFound(hs)
    \/ \E reg \in Registrations :
          /\ Startup
          /\ Len(routeObjs) < MaxRoutes
          /\ ~hasRoute(1, reg.path, reg.methods[1])
          /\ RouteTo(1, reg.path, reg.methods, <<routeHandler(Len(routeObjs) + 1)>>)
    \/ \E m \in RequestMethods, p \in RequestPaths, rts \in BOOLEAN, reuse \in BOOLEAN :
          HandleRequest(m, p, rts, reuse)

Spec == Init /\ [][Step]_vars

-----------------------------------------------------------------------------
(* What the properties read off the request served last *)

Served == last # <<>> /\ ~last[1].panic

\* the entries of the method's store whose pattern matches the path
matching(m, path) ==
    IF m \in DOMAIN stores
    THEN {i \in 1..Len(stores[m]) : Matches(stores[m][i].key, path)}
    ELSE {}

\* the store names under which some route matches the path
registeredFor(path) == {m \in DOMAIN stores : matching(m, path) # {}}

\* the handlers invoked during the request, in order of invocation
RECURSIVE invoked(_, _)
invoked(c, k) ==
    IF k > Len(c.trace) THEN <<>>
    ELSE (IF c.trace[k].ev = "call" THEN <<c.handlers[c.trace[k].pos + 1]>> ELSE <<>>)
             \o invoked(c, k + 1)

wasInvoked(c, h) == \E k \in 1..Len(invoked(c, 1)) : invoked(c, 1)[k] = h

DefaultEngine ==
    /\ groups[1].handlers = <<>>
    /\ notFound = <<MNA, NF>>
    /\ RedirectTrailingSlash

-----------------------------------------------------------------------------
(* Properties of Spec *)

\* C4: find(method, path) returns the chain registered for the method and a
\* pattern matching the path when the method's store has a match, and in
\* every other case the engine's Use handlers followed by the NotFound
\* handlers.
C4_FindChainOrFallback ==
    Served =>
        LET r == last[1]
        IN IF matching(r.method, r.path) # {}
           THEN \E i \in matching(r.method, r.path) :
                   r.c.handlers = stores[r.method][i].data
           ELSE r.c.handlers = groups[1].handlers \o notFound

\* C4 witness: a request fell back to a chain of a Use handler and the default
\* NotFound handlers, while its path is registered for another method
C4_Witness ==
    /\ Served
    /\ matching(last[1].method, last[1].path) = {}
    /\ registeredFor(last[1].path) # {}
    /\ last[1].c.handlers = <<hA, MNA, NF>>

\* C5: when the path of a request is registered for some method but not for
\* the request's, and the fallback chain reaches MethodNotAllowedHandler, the
\* response carries an Allow header and status 405 (200 for OPTIONS), the
\* request is aborted and NotFoundHandler is not invoked.
C5_MethodNotAllowed ==
    (/\ Served
     /\ registeredFor(last[1].path) # {}
     /\ matching(last[1].method, last[1].path) = {}
     /\ wasInvoked(last[1].c, MNA))
    => LET c == last[1].c
       IN /\ c.allow # <<>>
          /\ c.status = IF last[1].method = "OPTIONS" THEN StatusOK
                        ELSE StatusMethodNotAllowed
          /\ IsAborted(c)
          /\ ~wasInvoked(c, NF)

\* C5 witness: /x registered for GET only, POST /x answered 405 with
\* "Allow: GET, OPTIONS"
C5_Witness ==
    /\ Served
    /\ DOMAIN stores = {"GET"}
    /\ last[1].method = "POST" /\ last[1].path = PathX
    /\ matching("GET", PathX) # {}
    /\ last[1].c.status = StatusMethodNotAllowed
    /\ last[1].c.allow = <<"GET", ", ", "OPTIONS">>
    /\ IsAborted(last[1].c)

\* the names of the Allow header: every other piece of the joined value
allowNames(allow) == {allow[k] : k \in {j \in 1..Len(allow) : j % 2 = 1}}

\* C6: the Allow header written by MethodNotAllowedHandler lists exactly the
\* HTTP methods for which the path has a route, plus OPTIONS, each once, in
\* ascending order, and nothing that is not one of Methods.
C6_AllowListsHTTPMethods ==
    (Served /\ last[1].c.allow # <<>>)
    => LET c == last[1].c
           http == {Methods[k] : k \in 1..Len(Methods)}
       IN /\ c.allow = Join(sortStrings((registeredFor(last[1].path) \cap http)
                                            \cup {"OPTIONS"}), ", ")
          /\ allowNames(c.allow) \subseteq http

\* C7 as stated: on a default-configured engine a request whose path matches
\* no route of any method gets 404 and the body "Not Found".
C7_Original ==
    (Served /\ DefaultEngine /\ registeredFor(last[1].path) = {})
    => /\ last[1].c.status = StatusNotFound
       /\ last[1].c.body = <<"Not Found">>

\* C7 amended: ... and whose path with the trailing slash toggled matches no
\* route either, or which carries a Redirect-Trailing-Slash header, gets 404
\* and the body "Not Found".
C7_NotFound ==
    (/\ Served
     /\ DefaultEngine
     /\ registeredFor(last[1].path) = {}
     /\ \/ last[1].rts
        \/ registeredFor(IF Len(last[1].path) > 1 /\ last[1].path[Len(last[1].path)] = "/"
                         THEN SubSeq(last[1].path, 1, Len(last[1].path) - 1)
                         ELSE last[1].path \o <<"/">>) = {})
    => /\ last[1].c.status = StatusNotFound
       /\ last[1].c.body = <<"Not Found">>

\* C7 witness: GET /x with a Redirect-Trailing-Slash header, only /x/
\* registered, answered 404 "Not Found"
C7_Witness ==
    /\ Served
    /\ DefaultEngine
    /\ last[1].path = PathX /\ last[1].rts
    /\ registeredFor(PathX) = {} /\ registeredFor(PathXSlash) # {}
    /\ last[1].c.status = StatusNotFound
    /\ last[1].c.body = <<"Not Found">>

\* the request served last matched no route of its method and was answered
\* with a redirect
redirected ==
    /\ Served
    /\ last[1].rid = 0
    /\ last[1].c.location # <<>>

\* C26: with RedirectTrailingSlash enabled, an unmatched request is redirected
\* only when its path with the trailing slash toggled is registered for some
\* method and the request carries no Redirect-Trailing-Slash header; the
\* redirect goes to that path, with status 301 for GET and 307 for every
\* other method. When the alternate path is not registered, or the header is
\* present, no redirect is issued.
C26_RedirectTrailingSlash ==
    (Served /\ RedirectTrailingSlash /\ last[1].rid = 0)
    => LET c == last[1].c
           alt == toggleSlash(last[1].path)
       IN /\ redirected
             => /\ registeredFor(alt) # {}
                /\ ~last[1].rts
                /\ c.location = alt
                /\ c.status = IF last[1].method = "GET"
                              THEN StatusMovedPermanently
                              ELSE StatusTemporaryRedirect
          /\ (registeredFor(alt) = {} \/ last[1].rts)
             => /\ c.location = <<>>
                /\ c.status \notin {StatusMovedPermanently, StatusTemporaryRedirect}

\* C26 witness: POST /x/ with only GET /x registered, redirected to /x with 307
C26_Witness ==
    /\ redirected
    /\ RedirectTrailingSlash
    /\ last[1].method = "POST" /\ last[1].path = PathXSlash
    /\ registeredFor(PathXSlash) = {} /\ registeredFor(PathX) # {}
    /\ last[1].c.location = PathX
    /\ last[1].c.status = StatusTemporaryRedirect

\* C26 witness: GET /x/ redirected to /x with 301
C26_WitnessGet ==
    /\ redirected
    /\ last[1].method = "GET" /\ last[1].path = PathXSlash
    /\ last[1].c.location = PathX
    /\ last[1].c.status = StatusMovedPermanently

\* C26 witness: the alternate path is registered, the request carries the
\* header and is not redirected
C26_WitnessHeader ==
    /\ Served /\ RedirectTrailingSlash /\ last[1].rid = 0
    /\ last[1].rts
    /\ registeredFor(toggleSlash(last[1].path)) # {}
    /\ last[1].c.location = <<>>

\* C28: a request none of whose handlers calls Abort observes IsAborted() =
\* false for its whole duration (at every invocation and return of a handler,
\* and at its end), also on a pooled Context that served an aborted request
\* before.
C28_NotAbortedWithoutAbort ==
    (Served /\ \A k \in 1..Len(last[1].c.trace) : last[1].c.trace[k].ev # "abort")
    => /\ ~IsAborted(last[1].c)
       /\ \A k \in 1..Len(last[1].c.trace) : ~last[1].c.trace[k].ab

\* C33: after any sequence of Engine.Use and Engine.NotFound calls, in any
\* order, the fallback chain is the engine's current Use handlers followed by
\* the handlers of the most recent NotFound call.
C33_FallbackChain ==
    /\ [](notFoundHandlers = groups[1].handlers \o notFound)
    /\ [][\A hs \in {<<MNA, NF>>, <<hN>>} :
            (notFound' # notFound /\ notFound' = hs)
            => notFoundHandlers' = groups[1].handlers \o hs]_vars
    /\ [][\A hs \in {<<hA>>, <<hX>>} :
            groups'[1].handlers = groups[1].handlers \o hs
            => notFoundHandlers' = (groups[1].handlers \o hs) \o notFound]_vars

\* C33 witness: Use(a) and NotFound(n) have been called, and the fallback
\* chain is a, n
C33_Witness ==
    /\ groups[1].handlers = <<hA>>
    /\ notFound = <<hN>>
    /\ notFoundHandlers = <<hA, hN>>

\* C33 witness: NotFound(n), then NotFound(MethodNotAllowedHandler,
\* NotFoundHandler) again after a Use
C33_WitnessAgain ==
    /\ groups[1].handlers = <<hX>>
    /\ notFound = <<MNA, NF>>
    /\ notFoundHandlers = <<hX, MNA, NF>>

-----------------------------------------------------------------------------
(* SpecPipe: one route whose chain is any sequence of up to MaxChain        *)
(* handlers, each a script of Next and Abort calls, and requests for it.    *)

MaxChain == 3

Scripts ==
    { <<>>, <<"next">>, <<"abort">>, <<"next", "next">>, <<"abort", "next">>,
      <<"next", "abort">> }

Chains == UNION {[1..n -> {H("h", ops) : ops \in Scripts}] : n \in 1..MaxChain}

StepPipe ==
    \/ \E hs \in Chains :
          /\ Startup
          /\ routeObjs = <<>>
          /\ RouteTo(1, PathX, <<"GET">>, hs)
    \/ \E reuse \in BOOLEAN : HandleRequest("GET", PathX, FALSE, reuse)

SpecPipe == Init /\ [][StepPipe]_vars

\* C2: once the handler at position i has called Abort, no handler at a
\* position greater than i is invoked for the request, also when Next is
\* called again, and IsAborted is true from then on until the request ends.
C2_AbortStopsChain ==
    Served =>
        LET c == last[1].c
            t == c.trace
        IN \A k \in 1..Len(t) :
              t[k].ev = "abort" =>
                 /\ \A j \in (k + 1)..Len(t) :
                       /\ t[j].ev = "call" => t[j].pos <= t[k].pos
                       /\ t[j].ab
                 /\ t[k].ab
                 /\ IsAborted(c)

\* C2 witness: the first of three handlers called Abort and then Next, a
\* handler follows it in the chain, and only the first was invoked
C2_Witness ==
    /\ Served
    /\ Len(last[1].c.handlers) = 3
    /\ last[1].c.handlers[1].ops = <<"abort", "next">>
    /\ \E k \in 1..Len(last[1].c.trace) :
          /\ last[1].c.trace[k].ev = "abort" /\ last[1].c.trace[k].pos = 0
          /\ \E j \in (k + 1)..Len(last[1].c.trace) :
                last[1].c.trace[j].ev = "next" /\ last[1].c.trace[j].pos = 0
    /\ Len(invoked(last[1].c, 1)) = 1

\* the Next call that the return at k of the trace belongs to
nextOf(t, k) ==
    CHOOSE j \in 1..(k - 1) :
       /\ t[j].ev = "next" /\ t[j].pos = t[k].pos
       /\ \A i \in (j + 1)..(k - 1) : ~(t[i].ev = "next" /\ t[i].pos = t[k].pos)

\* C3: when a handler at position i calls Next, the handlers after it that
\* have not run yet run to completion, in order, before that Next returns
\* (all of them unless Abort has been called), and none is invoked after the
\* return: the code after Next runs after the downstream handlers.
C3_NextRunsDownstreamFirst ==
    Served =>
        LET c == last[1].c
            t == c.trace
            n == Len(c.handlers)
        IN /\ \A a, b \in 1..Len(t) :
                 (a < b /\ t[a].ev = "call" /\ t[b].ev = "call") => t[a].pos < t[b].pos
           /\ \A k \in 1..Len(t) :
                 t[k].ev = "nextret" =>
                    LET j == nextOf(t, k)
                    IN /\ \A a \in (j + 1)..(k - 1) :
                             t[a].ev = "call" =>
                                \E b \in (a + 1)..(k - 1) :
                                   t[b].ev = "ret" /\ t[b].pos = t[a].pos
                       /\ \A a \in (k + 1)..Len(t) :
                             t[a].ev = "call" => t[a].pos <= t[k].pos
                       /\ (\A a \in 1..(k - 1) : t[a].ev # "abort") =>
                             \A p \in (t[k].pos + 1)..(n - 1) :
                                \E a, b \in 1..(k - 1) :
                                   /\ a < b
                                   /\ t[a].ev = "call" /\ t[a].pos = p
                                   /\ t[b].ev = "ret" /\ t[b].pos = p

\* C3 witness: the first two of three handlers each called Next, nobody
\* aborted, and the third handler returned before the second's Next did,
\* which returned before the first's
C3_Witness ==
    /\ Served
    /\ Len(last[1].c.handlers) = 3
    /\ LET t == last[1].c.trace
       IN /\ \A a \in 1..Len(t) : t[a].ev # "abort"
          /\ \E a, b, d \in 1..Len(t) :
                /\ a < b /\ b < d
                /\ t[a].ev = "ret" /\ t[a].pos = 2
                /\ t[b].ev = "nextret" /\ t[b].pos = 1
                /\ t[d].ev = "nextret" /\ t[d].pos = 0

\* the number of handler invocations among the first k events of a trace
RECURSIVE callCount(_, _)
callCount(t, k) ==
    IF k = 0 THEN 0
    ELSE callCount(t, k - 1) + (IF t[k].ev = "call" THEN 1 ELSE 0)

\* C29: whatever Next and Abort calls the handlers of a chain of length n
\* make (nested, repeated, after Abort), each handler is invoked at most once
\* in a request, the cursor is within 0..n-1 whenever it indexes the chain,
\* and the top-level Next returns after at most n invocations.
C29_NextTerminates ==
    Served =>
        LET c == last[1].c
            t == c.trace
            n == Len(c.handlers)
        IN /\ \A a, b \in 1..Len(t) :
                 (a # b /\ t[a].ev = "call" /\ t[b].ev = "call") => t[a].pos # t[b].pos
           /\ \A a \in 1..Len(t) : t[a].ev = "call" => t[a].pos \in 0..(n - 1)
           /\ t # <<>>
           /\ t[Len(t)] = [ev |-> "nextret", pos |-> -1, ab |-> t[Len(t)].ab]
           /\ callCount(t, Len(t)) <= n

\* C29 witness: a chain of three handlers, the first calling Next twice, the
\* second calling Next (nested), all three invoked
C29_Witness ==
    /\ Served
    /\ Len(last[1].c.handlers) = 3
    /\ last[1].c.handlers[1].ops = <<"next", "next">>
    /\ last[1].c.handlers[2].ops = <<"next">>
    /\ callCount(last[1].c.trace, Len(last[1].c.trace)) = 3

\* C29 witness: the first of three handlers calls Abort and then Next, which
\* invokes nobody; the cursor ends beyond the chain
C29_WitnessAbort ==
    /\ Served
    /\ Len(last[1].c.handlers) = 3
    /\ last[1].c.handlers[1].ops = <<"abort", "next">>
    /\ callCount(last[1].c.trace, Len(last[1].c.trace)) = 1
    /\ last[1].c.index > 3

-----------------------------------------------------------------------------
(* SpecChain: groups are created and given handlers, one route with the     *)
(* handlers e, f is registered on one of them, and requests are served.     *)

MaxGroups == 2
MaxGroupHandlers == 4

PathG == <<"/", "g">>
PathGX == <<"/", "g", "/", "x">>

hB == H("b", <<>>)
hC == H("c", <<"next">>)
hD == H("d", <<>>)
hE == H("e", <<"next">>)
hF == H("f", <<>>)

StepChain ==
    \/ \E hs \in {<<hA, hB>>} :
          /\ Startup
          /\ Len(groups[1].handlers) + Len(hs) <= MaxGroupHandlers
          /\ EngineUse(hs)
    \/ \E parent \in 1..Len(groups), hs \in {<<>>, <<hC>>} :
          /\ Startup
          /\ Len(groups) < MaxGroups
          /\ GroupNew(parent, PathG, hs)
    \/ \E g \in 2..Len(groups), hs \in {<<hC, hD>>, <<hX>>} :
          /\ Startup
          /\ Len(groups[g].handlers) + Len(hs) <= MaxGroupHandlers
          /\ GroupUse(g, hs)
    \/ \E g \in 1..Len(groups) :
          /\ Startup
          /\ routeObjs = <<>>
          /\ RouteTo(g, PathX, <<"GET">>, <<hE, hF>>)
    \/ \E p \in {PathX, PathGX}, reuse \in BOOLEAN :
          HandleRequest("GET", p, FALSE, reuse)

SpecChain == Init /\ [][StepChain]_vars

\* the store entry the registration numbered rid added
entryOf(rid) ==
    LET m == CHOOSE m \in DOMAIN stores : \E i \in 1..Len(stores[m]) : stores[m][i].rid = rid
    IN stores[m][CHOOSE i \in 1..Len(stores[m]) : stores[m][i].rid = rid]

\* C1: the chain stored for a route is the handler list its group has when
\* the route is registered followed by the route's own handlers, and a
\* matching request during which no handler calls Abort invokes the handlers
\* of the chain in that order, each exactly once.
C1_GroupThenRouteHandlers ==
    /\ [][Len(routeObjs') = Len(routeObjs) + 1 =>
             LET r == routeObjs'[Len(routeObjs')]
                 st == stores'["GET"]
             IN /\ st[Len(st)].key = r.path
                /\ st[Len(st)].data = groups[r.group].handlers \o <<hE, hF>>]_vars
    /\ [](Served /\ last[1].rid # 0 => last[1].c.handlers = entryOf(last[1].rid).data)
    /\ []((/\ Served
           /\ last[1].rid # 0
           /\ \A k \in 1..Len(last[1].c.trace) : last[1].c.trace[k].ev # "abort")
          => invoked(last[1].c, 1) = entryOf(last[1].rid).data)

\* C1 witness: a group with the handlers a, b, a child group that took them
\* over and was given c, d, a route with e, f on the child, and a request for
\* it that ran a, b, c, d, e, f
C1_Witness ==
    /\ Served
    /\ last[1].path = PathGX
    /\ Len(groups) = 2
    /\ groups[1].handlers = <<hA, hB>>
    /\ groups[2].handlers = <<hA, hB, hC, hD>>
    /\ invoked(last[1].c, 1) = <<hA, hB, hC, hD, hE, hF>>

\* the step is a Use on the group g: its handler list grows
isUse(g) ==
    /\ Len(groups') = Len(groups)
    /\ Len(groups'[g].handlers) > Len(groups[g].handlers)

\* C23: a Use on a group changes neither the chain of a route that is
\* already registered nor the handler list of any other group, a child made
\* from it included; a route registered later gets the list of the moment.
C23_UseIsNotRetroactive ==
    /\ [][\A g \in 1..Len(groups) :
            isUse(g)
            => /\ stores' = stores
               /\ \A h \in (1..Len(groups)) \ {g} : groups'[h] = groups[h]
               /\ SubSeq(groups'[g].handlers, 1, Len(groups[g].handlers))
                    = groups[g].handlers]_vars
    /\ [][Len(routeObjs') = Len(routeObjs) + 1 =>
             LET r == routeObjs'[Len(routeObjs')]
                 st == stores'["GET"]
             IN /\ st[Len(st)].data = groups'[r.group].handlers \o <<hE, hF>>
                /\ groups' = groups]_vars

\* C23 witness: the engine's group was given a, b after a route with e, f was
\* registered on it and after a child group was made from it: the route's
\* chain is e, f and the child has c, d only
C23_Witness ==
    /\ Len(groups) = 2
    /\ groups[1].handlers = <<hA, hB>>
    /\ groups[2].handlers = <<hC, hD>>
    /\ Len(routeObjs) = 1
    /\ routeObjs[1].group = 1
    /\ stores["GET"][1].data = <<hE, hF>>

\* the same for a Use on the child group after a route was registered on it
C23_WitnessChild ==
    /\ Len(groups) = 2
    /\ groups[2].handlers = <<hC, hD>>
    /\ Len(routeObjs) = 1
    /\ routeObjs[1].group = 2
    /\ stores["GET"][1].data = <<hE, hF>>

-----------------------------------------------------------------------------
(* SpecMatch: routes with parameters, a literal route and a catch-all are   *)
(* registered for GET in any order, and GET requests are served.            *)

PatternUsers42 == PathUsers42

PatternAB == <<"/", "<", "a", ">", "/", "<", "b", ">">>

MatchPatterns == {PatternUsersId, PatternUsersName, PatternUsers42, PatternStar, PatternAB}

StepMatch ==
    \/ \E hs \in {<<hA>>} :
          /\ Startup
          /\ Len(groups[1].handlers) < MaxUse
          /\ EngineUse(hs)
    \/ \E pat \in MatchPatterns :
          /\ Startup
          /\ Len(routeObjs) < MaxRoutes
          /\ ~hasRoute(1, pat, "GET")
          /\ RouteTo(1, pat, <<"GET">>, <<routeHandler(Len(routeObjs) + 1)>>)
    \/ \E p \in {PathUsers42, PathUsersAbc, PathX}, reuse \in BOOLEAN :
          HandleRequest("GET", p, FALSE, reuse)

SpecMatch == Init /\ [][StepMatch]_vars

C9_RegexParameter ==
    (/\ Served
     /\ "GET" \in DOMAIN stores
     /\ \E i \in 1..Len(stores["GET"]) : stores["GET"][i].key = PatternUsersId)
    => LET r == last[1]
           i == CHOOSE i \in 1..Len(stores["GET"]) : stores["GET"][i].key = PatternUsersId
           H0 == stores["GET"][i]
       IN /\ (/\ r.path = PathUsers42
              /\ \A j \in 1..(i - 1) : ~Matches(stores["GET"][j].key, r.path))
             => /\ r.c.handlers = H0.data
                /\ r.rid = H0.rid
                /\ Param(r.c, NameId) = <<"4", "2">>
          /\ r.path = PathUsersAbc
             => /\ r.rid # H0.rid
                /\ r.c.handlers # H0.data
                /\ (\A j \in 1..Len(stores["GET"]) :
                       j # i => ~Matches(stores["GET"][j].key, r.path))
                   => r.c.handlers = groups[1].handlers \o notFound

\* C9 witness: only /users/<id:\d+> is registered and GET /users/42 was
\* resolved to it with id = "42"
C9_Witness ==
    /\ Served
    /\ "GET" \in DOMAIN stores
    /\ Len(stores["GET"]) = 1
    /\ stores["GET"][1].key = PatternUsersId
    /\ last[1].path = PathUsers42
    /\ last[1].c.handlers = stores["GET"][1].data
    /\ Param(last[1].c, NameId) = <<"4", "2">>

RECURSIVE filled(_, _)
\* the pattern with its k-th token replaced by the k-th of the values
filled(key, values) ==
    IF key = <<>> THEN <<>>
    ELSE LET close == IndexOf(key, ">", 2)
         IN IF Head(key) = "<" /\ close > 0 /\ values # <<>>
            THEN Head(values) \o filled(SubSeq(key, close + 1, Len(key)), Tail(values))
            ELSE <<Head(key)>> \o filled(Tail(key), values)

RECURSIVE tokensInOrder(_)
\* the tokens of a pattern, without the brackets, in order
tokensInOrder(key) ==
    IF key = <<>> THEN <<>>
    ELSE LET close == IndexOf(key, ">", 2)
         IN IF Head(key) = "<" /\ close > 0
            THEN <<SubSeq(key, 2, close - 1)>> \o tokensInOrder(SubSeq(key, close + 1, Len(key)))
            ELSE tokensInOrder(Tail(key))

\* the name of a token: its text before its first ':'
tokenName(inner) ==
    IF \E i \in 1..Len(inner) : inner[i] = ":"
    THEN SubSeq(inner, 1, (CHOOSE i \in 1..Len(inner) :
                             inner[i] = ":" /\ \A j \in 1..(i - 1) : inner[j] # ":") - 1)
    ELSE inner

C18_WitnessTwo ==
    /\ Served
    /\ last[1].rid # 0
    /\ entryOf(last[1].rid).key = PatternAB
    /\ last[1].c.pnames = <<<<"a">>, <<"b">>>>
    /\ last[1].c.pvalues = <<<<"u", "s", "e", "r", "s">>, <<"4", "2">>>>

-----------------------------------------------------------------------------
(* SpecURL: a route with two parameters, or a parameter and a catch-all, is *)
(* registered and URL is called on it with up to MaxPairs arguments.        *)

MaxPairs == 4

PatternADigitsB == <<"/", "<", "a", ":", "\\", "d", "+", ">", "/", "<", "b", ">">>

PatternAStar == <<"/", "<", "a", ">", "/", "*">>

Words == {<<"a">>, <<"b">>, <<"x">>, <<" ">>, <<>>}

StepURL ==
    \/ \E pat \in {PatternAB, PatternADigitsB, PatternAStar} :
          /\ routeObjs = <<>>
          /\ RouteTo(1, pat, <<"GET">>, <<hN>>)
    \/ \E rt \in 1..Len(routeObjs) :
       \E pairs \in UNION {[1..n -> Words] : n \in 0..MaxPairs} :
          /\ urlCall = <<>>
          /\ RouteURL(rt, pairs)

SpecURL == Init /\ [][StepURL]_vars

\* the names and the values of a list name1, value1, name2, value2, ...
pairNames(pairs) == {pairs[2 * k - 1] : k \in 1..(Len(pairs) \div 2)}
valueOf(pairs, name) ==
    pairs[2 * (CHOOSE k \in 1..(Len(pairs) \div 2) : pairs[2 * k - 1] = name)]

RECURSIVE substituted(_, _)
\* the template with every token <name> of a supplied name replaced by the
\* percent-encoded value paired with the name, all tokens at once
substituted(t, pairs) ==
    IF t = <<>> THEN <<>>
    ELSE LET close == IndexOf(t, ">", 2)
         IN IF Head(t) = "<" /\ close > 0 /\ SubSeq(t, 2, close - 1) \in pairNames(pairs)
            THEN QueryEscape(valueOf(pairs, SubSeq(t, 2, close - 1)))
                     \o substituted(SubSeq(t, close + 1, Len(t)), pairs)
            ELSE <<Head(t)>> \o substituted(Tail(t), pairs)

\* C10: URL(name1, value1, name2, value2, ...) replaces every occurrence of
\* each token <name_i> of the template by the percent-encoded value_i paired
\* with that name, for every assignment of values, also values that are the
\* name of another parameter of the route.
C10_URLSubstitutesPairs ==
    (/\ urlCall # <<>>
     /\ Len(urlCall[1].pairs) % 2 = 0
     /\ Cardinality(pairNames(urlCall[1].pairs)) = Len(urlCall[1].pairs) \div 2)
    => urlCall[1].result
          = substituted(routeObjs[urlCall[1].route].template, urlCall[1].pairs)

\* whether sub occurs in s
Occurs(s, sub) ==
    \E i \in 1..(Len(s) - Len(sub) + 1) : SubSeq(s, i, i + Len(sub) - 1) = sub

Token(name) == <<"<">> \o name \o <<">">>

\* the names of the tokens of a template: what stands between a '<' and the
\* first '>' after it
RECURSIVE tokenNames(_)
tokenNames(t) ==
    IF t = <<>> THEN {}
    ELSE LET close == IndexOf(t, ">", 2)
         IN IF Head(t) = "<" /\ close > 0
            THEN {SubSeq(t, 2, close - 1)} \cup tokenNames(SubSeq(t, close + 1, Len(t)))
            ELSE tokenNames(Tail(t))

\* the name of a token: its text before its first ':'
nameOfToken(inner) ==
    IF IndexOf(inner, ":", 1) = 0 THEN inner
    ELSE SubSeq(inner, 1, IndexOf(inner, ":", 1) - 1)

RECURSIVE stripped(_)
\* the pattern with every complete token, from a '<' to the first '>' after
\* it, cut down to its name, and everything else kept
stripped(p) ==
    LET open == IndexOf(p, "<", 1)
        close == IF open = 0 THEN 0 ELSE IndexOf(p, ">", open + 1)
    IN IF close = 0 THEN p
       ELSE SubSeq(p, 1, open - 1) \o Token(nameOfToken(SubSeq(p, open + 1, close - 1)))
                \o stripped(SubSeq(p, close + 1, Len(p)))

LoneName == urlCall[1].pairs[Len(urlCall[1].pairs)]

C12_UnsuppliedTokensRemain ==
    (/\ urlCall # <<>>
     /\ Len(urlCall[1].pairs) % 2 = 0
     /\ Cardinality(pairNames(urlCall[1].pairs)) = Len(urlCall[1].pairs) \div 2)
    => LET t == routeObjs[urlCall[1].route].template
           names == pairNames(urlCall[1].pairs)
       IN /\ \A n \in tokenNames(t) \ names : Occurs(urlCall[1].result, Token(n))
          /\ names \cap tokenNames(t) = {} => urlCall[1].result = t

\* C13: URL called on the template built from a route's pattern, with a
\* value for every parameter name of the pattern, the empty name of the
\* catch-all included, returns a string without any <...> token.
C13_NoTokenLeft ==
    (/\ urlCall # <<>>
     /\ Len(urlCall[1].pairs) % 2 = 0
     /\ {nameOfToken(n) : n \in tokenNames(routeObjs[urlCall[1].route].path)}
           \subseteq pairNames(urlCall[1].pairs))
    => ~\E i, j \in 1..Len(urlCall[1].result) :
           i < j /\ urlCall[1].result[i] = "<" /\ urlCall[1].result[j] = ">"

\* C13 witness: URL("a", "b", "", "x") on /<a>/* (template /<a>/<>)
\* returned a string without '<'
C13_Witness ==
    /\ urlCall # <<>>
    /\ routeObjs[urlCall[1].route].template = <<"/", "<", "a", ">", "/", "<", ">">>
    /\ urlCall[1].pairs = <<<<"a">>, <<"b">>, <<>>, <<"x">>>>
    /\ \A i \in 1..Len(urlCall[1].result) : urlCall[1].result[i] # "<"

-----------------------------------------------------------------------------
(* SpecTemplate: one route is created from any pattern of up to             *)
(* MaxPatternLen bytes of '<', '>', ':', 'a' and '/', well formed or not.   *)

MaxPatternLen == 5

PatternBytes == {"<", ">", ":", "a", "/"}

StepTemplate ==
    \E pat \in UNION {[1..n -> PatternBytes] : n \in 1..MaxPatternLen} :
       /\ routeObjs = <<>>
       /\ RouteTo(1, pat, <<"GET">>, <<hN>>)

SpecTemplate == Init /\ [][StepTemplate]_vars

\* C14: buildURLTemplate rewrites every complete token <name:regex> to
\* <name>, dropping what follows the first ':' of the token, keeps every
\* <name> token and the text outside tokens, in order, returns a path without
\* a complete token unchanged, and is idempotent.
C14_TemplateStripsRegex ==
    \A k \in 1..Len(routeObjs) :
       LET r == routeObjs[k]
       IN /\ r.template = stripped(r.path)
          /\ (~\E i, j \in 1..Len(r.path) : i < j /\ r.path[i] = "<" /\ r.path[j] = ">")
                => r.template = r.path
          /\ buildURLTemplate(r.template) = r.template

\* C14 witness: the route <a:a> has the template <a>
C14_Witness ==
    /\ Len(routeObjs) = 1
    /\ routeObjs[1].path = <<"<", "a", ":", "a", ">">>
    /\ routeObjs[1].template = <<"<", "a", ">">>

-----------------------------------------------------------------------------
(* SpecRoutes: a child group is created, routes are registered on the       *)
(* groups for one or several methods, and routes are renamed.               *)

PathFStar == <<"/", "f", "/", "*">>
NameUser == <<"u", "s", "e", "r">>

\* what is registered: every pattern with its own list of methods
RouteRegs ==
    { [methods |-> <<"GET">>, path |-> PathX],
      [methods |-> <<"GET", "POST">>, path |-> PathY],
      [methods |-> <<"PUT">>, path |-> PathFStar],
      [methods |-> <<"WEBSOCKET">>, path |-> PatternUsersId] }

RouteNames == {NameUser, PathX}

StepRoutes ==
    \/ /\ Len(groups) < MaxGroups
       /\ GroupNew(1, PathG, <<>>)
    \/ \E g \in 1..Len(groups), reg \in RouteRegs :
          /\ Len(routeObjs) < MaxRoutes
          /\ \A k \in 1..Len(reg.methods) : ~hasRoute(g, reg.path, reg.methods[k])
          /\ RouteTo(g, reg.path, reg.methods, <<hN>>)
    \/ \E rt \in 1..Len(routeObjs), n \in RouteNames :
          /\ routeObjs[rt].name # n
          /\ RouteName(rt, n)

SpecRoutes == Init /\ [][StepRoutes]_vars

\* the pattern the route created last in the next state was given
patternOfNew ==
    LET r == routeObjs'[Len(routeObjs')]
    IN SubSeq(r.name, Len(groups[r.group].path) + 1, Len(r.name))

\* C15: newRoute(pattern, group) creates a route whose name is group.path +
\* pattern as written, whose path is the name with a trailing '*' rewritten
\* to '<:.*>', whose template is the path with every token cut down to its
\* name (the catch-all becoming '<>'), and enters it in the engine's route
\* map under its name.
C15_NewRoute ==
    [][Len(routeObjs') = Len(routeObjs) + 1 =>
          LET r == routeObjs'[Len(routeObjs')]
          IN /\ \E reg \in RouteRegs : r.name = groups[r.group].path \o reg.path
             /\ r.path = IF r.name[Len(r.name)] = "*"
                         THEN SubSeq(r.name, 1, Len(r.name) - 1) \o <<"<", ":", ".", "*", ">">>
                         ELSE r.name
             /\ r.template = stripped(r.path)
             /\ r.name \in DOMAIN routes'
             /\ routes'[r.name] = Len(routeObjs')
             /\ \A k \in 1..Len(routeObjs) : routeObjs'[k] = routeObjs[k]]_vars

\* C15 witness: the route /f/* of the group /g: name /g/f/*, path
\* /g/f/<:.*>, template /g/f/<>, found under its name
C15_Witness ==
    \E k \in 1..Len(routeObjs) :
       /\ routeObjs[k].group = 2
       /\ routeObjs[k].name = PathG \o PathFStar
       /\ routeObjs[k].path = PathG \o <<"/", "f", "/", "<", ":", ".", "*", ">">>
       /\ routeObjs[k].template = PathG \o <<"/", "f", "/", "<", ">">>
       /\ Route(PathG \o PathFStar) = k

\* C16: after r.Name(n) the name of the route is n and Route(n) is r, and
\* every other entry of the route map, the one under the previous name
\* included, is as it was.
C16_NameKeepsOldEntry ==
    [][(Len(routeObjs') = Len(routeObjs) /\ routeObjs' # routeObjs) =>
          \E rt \in 1..Len(routeObjs) :
             LET n == routeObjs'[rt].name
             IN /\ routeObjs' = [routeObjs EXCEPT ![rt].name = n]
                /\ n \in DOMAIN routes' /\ routes'[n] = rt
                /\ DOMAIN routes' = DOMAIN routes \cup {n}
                /\ \A k \in DOMAIN routes \ {n} : routes'[k] = routes[k]
                /\ routeObjs[rt].name \in DOMAIN routes' \ {n}
                      => routes'[routeObjs[rt].name] = routes[routeObjs[rt].name]]_vars

\* C16 witness: a route renamed to "user" is found under "user" and still
\* under the name it was created with
C16_Witness ==
    \E k \in 1..Len(routeObjs) :
       /\ routeObjs[k].name = NameUser
       /\ Route(NameUser) = k
       /\ Route(routeObjs[k].path) = k

\* the number of entries of the store of a method, 0 without a store
storeLen(ss, m) == IF m \in DOMAIN ss THEN Len(ss[m]) ELSE 0

\* C17: registering a route for a list of methods adds the path of the route
\* to the store of each of the methods exactly once and leaves the store of
\* every other method as it was.
C17_ToAddsOncePerMethod ==
    [][Len(routeObjs') = Len(routeObjs) + 1 =>
          LET r == routeObjs'[Len(routeObjs')]
              reg == CHOOSE reg \in RouteRegs : reg.path = patternOfNew
              named == {reg.methods[k] : k \in 1..Len(reg.methods)}
          IN /\ \A m \in named :
                   /\ m \in DOMAIN stores'
                   /\ Len(stores'[m]) = storeLen(stores, m) + 1
                   /\ stores'[m][Len(stores'[m])].key = r.path
                   /\ \A k \in 1..storeLen(stores, m) : stores'[m][k] = stores[m][k]
             /\ \A m \in (DOMAIN stores \cup DOMAIN stores') \ named :
                   /\ m \in DOMAIN stores /\ m \in DOMAIN stores'
                   /\ stores'[m] = stores[m]]_vars

\* C17 witness: after To("GET,POST") for /y the stores of GET and of POST
\* hold /y once each and there is no store for another method
C17_Witness ==
    /\ DOMAIN stores = {"GET", "POST"}
    /\ Len(stores["GET"]) = 1 /\ stores["GET"][1].key = PathY
    /\ Len(stores["POST"]) = 1 /\ stores["POST"][1].key = PathY

\* the largest number of parameters of a route of any store
maxStoreParams ==
    LET ns == {maxPnames(stores[m]) : m \in DOMAIN stores} \cup {0}
    IN CHOOSE n \in ns : \A k \in ns : k <= n

\* C36: no registration decreases engine.maxParams, and after any sequence of
\* add calls it is the largest value a store's Add has returned: the largest
\* number of parameters of a route of any method.
C36_MaxParams ==
    /\ [][maxParams' >= maxParams]_vars
    /\ [](maxParams = maxStoreParams)

\* C36 witness: a route with one parameter was registered for one method,
\* then a route without parameters for another; maxParams is still 1
C36_Witness ==
    /\ maxParams = 1
    /\ \E m, n \in DOMAIN stores :
          /\ m # n
          /\ \E i \in 1..Len(stores[m]), j \in 1..Len(stores[n]) :
                /\ stores[m][i].rid < stores[n][j].rid
                /\ Len(stores[m][i].pnames) = 1
                /\ maxPnames(stores[n]) = 0

\* C37: Engine.add creates a store for a method only when the method has
\* none: a method that has a store keeps it, with its routes, through every
\* later registration, which adds to it; a store made by a registration
\* holds the route of that registration and nothing else.
C37_StoreCreatedOnce ==
    [][/\ \A m \in DOMAIN stores :
             /\ m \in DOMAIN stores'
             /\ Len(stores'[m]) \in {Len(stores[m]), Len(stores[m]) + 1}
             /\ SubSeq(stores'[m], 1, Len(stores[m])) = stores[m]
       /\ \A m \in DOMAIN stores' \ DOMAIN stores :
             /\ Len(stores'[m]) = 1
             /\ stores'[m][1].key = routeObjs'[Len(routeObjs')].path]_vars

\* C37 witness: two routes have been registered for GET, and its store holds
\* both in the order of registration
C37_Witness ==
    /\ "GET" \in DOMAIN stores
    /\ Len(stores["GET"]) = 2
    /\ stores["GET"][1].rid < stores["GET"][2].rid

-----------------------------------------------------------------------------
(* SpecConc: routes are registered at startup, then MaxRequests requests    *)
(* are dispatched, each on a goroutine of its own running HandleRequest     *)
(* statement by statement, interleaved in every order.                      *)

ConcRegs ==
    { [methods |-> <<"GET">>, path |-> PathX],
      [methods |-> <<"GET">>, path |-> PatternUsersId] }

ConcPaths == {PathX, PathY, PathUsers42}

\* no request has been dispatched yet
NotServing == heap = <<>> /\ \A t \in Tasks : tasks[t].pc = "get"

StepConc ==
    \/ \E reg \in ConcRegs :
          /\ NotServing
          /\ Len(routeObjs) < MaxRoutes
          /\ ~hasRoute(1, reg.path, reg.methods[1])
          /\ RouteTo(1, reg.path, reg.methods, <<routeHandler(Len(routeObjs) + 1)>>)
    \/ \E t \in Tasks, p \in ConcPaths : TaskGet(t, "GET", p)
    \/ \E t \in Tasks : TaskInit(t)
    \/ \E t \in Tasks : TaskFind(t)
    \/ \E t \in Tasks : TaskNext(t)
    \/ \E t \in Tasks : TaskPut(t)
    \/ \E t \in Tasks : TaskDebug(t)

SpecConc == Init /\ [][StepConc]_vars

\* what HandleRequest does to the pool and the Context, in order
HandleRequestOps == <<"get", "init", "find", "next", "put", "debug">>

\* the pipeline of the Context has been run once and has returned: its trace
\* starts with the top-level Next, ends with the return of it and holds no
\* other top-level Next
ranOnce(c) ==
    /\ c.trace # <<>>
    /\ c.trace[1].ev = "next" /\ c.trace[1].pos = -1
    /\ c.trace[Len(c.trace)].ev = "nextret" /\ c.trace[Len(c.trace)].pos = -1
    /\ \A k \in 2..Len(c.trace) : ~(c.trace[k].ev = "next" /\ c.trace[k].pos = -1)

\* C19: for every request HandleRequest acquires a Context from the pool,
\* initialises it, finds the handlers, calls Next once and releases the
\* Context, in that order; the Context goes back to the pool once, and only
\* after the pipeline has run once and finished.
C19_HandleRequestOrder ==
    /\ [](\A t \in Tasks :
            /\ Len(tasks[t].ops) <= Len(HandleRequestOps)
            /\ tasks[t].ops = SubSeq(HandleRequestOps, 1, Len(tasks[t].ops)))
    /\ [][\A t \in Tasks :
            tasks'[t].ops = Append(tasks[t].ops, "put")
            => /\ tasks[t].ops = <<"get", "init", "find", "next">>
               /\ ranOnce(heap[tasks[t].c])
               /\ tasks[t].c \notin free /\ tasks[t].c \in free']_vars
    /\ [](\A t \in Tasks :
            tasks[t].pc = "done"
            => Cardinality({k \in 1..Len(tasks[t].ops) : tasks[t].ops[k] = "put"}) = 1)

\* C19 witness: two requests have been served to the end on the same Context,
\* one after the other
C19_Witness ==
    \E t, u \in Tasks :
        /\ t # u
        /\ tasks[t].pc = "done" /\ tasks[u].pc = "done"
        /\ tasks[t].c = tasks[u].c
        /\ tasks[t].ops = HandleRequestOps
        /\ ranOnce(heap[tasks[t].c])

\* the goroutine has its Context and a statement that reads or writes it
\* still to execute
accesses(t) == tasks[t].pc \in {"init", "find", "next", "put", "debug"}

\* C20: a Context is never accessed by more than one task at a time: no two
\* goroutines have statements that read or write the same Context still to
\* execute.
C20_OneTaskPerContext ==
    \A t, u \in Tasks :
        (t # u /\ accesses(t) /\ accesses(u)) => tasks[t].c # tasks[u].c

-----------------------------------------------------------------------------
(* SpecData: concurrent requests whose handlers use the data items of the   *)
(* Context (Set, Copy, Serialize); no route is registered.                  *)

KeyItem == "k"
ValueOrig == <<"set through c">>
ValueCopy == <<"set through the copy">>

StepData ==
    \/ \E t \in Tasks : TaskGet(t, "GET", PathY)
    \/ \E t \in Tasks : TaskInit(t)
    \/ \E t \in Tasks : TaskFind(t)
    \/ \E t \in Tasks : TaskNext(t)
    \/ \E t \in Tasks : TaskPut(t)
    \/ \E t \in Tasks : TaskDebug(t)
    \/ \E t \in Tasks : CallSet(t, KeyItem, ValueOrig)
    \/ \E t \in Tasks : CallSerialize(t)
    \/ \E t \in Tasks : CallCopy(t)
    \/ \E t \in Tasks : CallSetCopy(t, KeyItem, ValueCopy)

SpecData == Init /\ [][StepData]_vars

\* the Context at the address, with the data maps in view
ctx(a) == load(heap[a], dataMaps)

\* C21: after init on a pooled Context the cursor is -1, Get returns nil for
\* every key (also one set during an earlier request served by the Context)
\* and Serialize is the default serializer.
C21_InitResets ==
    [][\A t \in Tasks :
          (tasks[t].pc = "init" /\ tasks'[t].pc = "find")
          => /\ heap'[tasks[t].c].index = -1
             /\ Get(load(heap'[tasks[t].c], dataMaps'), KeyItem) = Nil
             /\ heap'[tasks[t].c].Serialize = "Serialize"]_vars

\* C21 witness: a Context has just been initialised for a second request; the
\* first request on it set an item (its copy still shows it)
C21_Witness ==
    \E t, u \in Tasks :
        /\ t # u
        /\ tasks[t].pc = "find"
        /\ tasks[u].pc = "done"
        /\ tasks[u].c = tasks[t].c
        /\ tasks[u].copy # 0
        /\ Get(ctx(tasks[u].copy), KeyItem) = ValueOrig

\* the request of the goroutine is in its pipeline and a handler has made a
\* copy of its Context
hasCopy(t) == tasks[t].pc = "next" /\ tasks[t].copy # 0

\* C22: Copy returns a Context with the request and response contents of the
\* original that shares the data items with it (what Set stores through
\* either, Get returns through the other), and Copy leaves the original
\* (cursor, handlers, abort flag, request) unchanged.
C22_CopySharesData ==
    /\ [](\A t \in Tasks :
            hasCopy(t) => Get(ctx(tasks[t].c), KeyItem) = Get(ctx(tasks[t].copy), KeyItem))
    /\ [][\A t \in Tasks :
            (tasks[t].copy = 0 /\ tasks'[t].copy # 0)
            => LET c == heap[tasks[t].c]
                   ret == heap'[tasks'[t].copy]
               IN /\ heap'[tasks[t].c] = c
                  /\ ret.data = c.data
                  /\ <<ret.method, ret.path, ret.rts>> = <<c.method, c.path, c.rts>>
                  /\ <<ret.status, ret.allow, ret.location, ret.body>>
                       = <<c.status, c.allow, c.location, c.body>>]_vars

\* C22 witness: an item set through the copy is read through the original
C22_Witness ==
    \E t \in Tasks :
        /\ hasCopy(t)
        /\ Get(ctx(tasks[t].c), KeyItem) = ValueCopy

\* the same the other way round: set through the original, read through the copy
C22_WitnessOrig ==
    \E t \in Tasks :
        /\ hasCopy(t)
        /\ Get(ctx(tasks[t].copy), KeyItem) = ValueOrig

-----------------------------------------------------------------------------
(* SpecDup: routes are registered on the engine's group, also for a method  *)
(* and pattern that are registered already, and requests are served.        *)

DupRegs == { [method |-> m, path |-> p] : m \in {"GET", "POST"}, p \in {PathX, PathY} }

StepDup ==
    \/ \E reg \in DupRegs :
          /\ Startup
          /\ Len(routeObjs) < MaxRoutes
          /\ RouteTo(1, reg.path, <<reg.method>>, <<routeHandler(Len(routeObjs) + 1)>>)
    \/ \E m \in {"GET", "POST"}, p \in {PathX, PathY}, reuse \in BOOLEAN :
          HandleRequest(m, p, FALSE, reuse)

SpecDup == Init /\ [][StepDup]_vars

\* the step registers a route for a method and pattern that are registered
isDuplicate ==
    /\ Len(routeObjs') = Len(routeObjs) + 1
    /\ \E m \in DOMAIN stores :
          /\ stores'[m] # stores[m]
          /\ \E i \in 1..Len(stores[m]) :
                stores[m][i].key = routeObjs'[Len(routeObjs')].path

sameKey(m, i) == {j \in 1..Len(stores[m]) : stores[m][j].key = stores[m][i].key}

-----------------------------------------------------------------------------
(* SpecAuth: GET /x is registered with the BasicAuth handler of some        *)
(* accounts followed by one more handler, and requests with and without     *)
(* credentials are served.                                                  *)

MaxAccounts == 2

AuthUsers == { <<"a">>, <<"a", ":", "b">> }
AuthPasswords == { <<"c">>, <<"b", ":", "c">>, <<>> }

\* the accounts BasicAuth is configured with: user and password, in order
AccountSeqs == UNION {[1..n -> AuthUsers \X AuthPasswords] : n \in 1..MaxAccounts}

\* the arguments of BasicAuth: username1, password1, username2, password2, ...
arguments(as) ==
    [k \in 1..(2 * Len(as)) |->
        IF k % 2 = 1 THEN as[(k + 1) \div 2][1] ELSE as[k \div 2][2]]

\* the Authorization headers of the requests: none, the credentials of every
\* user and password, and credentials that are not encoded
AuthHeaders ==
    {<<>>, <<"a", ":", "c">>} \cup {BasicValue(u, p) : u \in AuthUsers, p \in AuthPasswords}

StepAuth ==
    \/ \E as \in AccountSeqs :
          /\ Startup
          /\ routeObjs = <<>>
          /\ RouteTo(1, PathX, <<"GET">>, <<BasicAuth(arguments(as)), hN>>)
    \/ \E h \in AuthHeaders, reuse \in BOOLEAN :
          HandleRequestWith([method |-> "GET", path |-> PathX, rts |-> FALSE, auth |-> h],
                            reuse)

SpecAuth == Init /\ [][StepAuth]_vars

\* the request served last went through the BasicAuth handler of the accounts
throughBasicAuth(as) ==
    /\ Served
    /\ last[1].rid # 0
    /\ last[1].c.handlers = <<BasicAuth(arguments(as)), hN>>

\* the request served last was refused by BasicAuth: 401, WWW-Authenticate,
\* aborted, the handler after BasicAuth not invoked, no AuthUserKey item
refused ==
    LET c == last[1].c
    IN /\ c.status = 401
       /\ c.wwwAuth = "Basic realm=Authorization Required"
       /\ IsAborted(c)
       /\ invoked(c, 1) = <<c.handlers[1]>>
       /\ Get(c, AuthUserKey) = Nil

BasicAuthFirstAccount ==
    \A as \in AccountSeqs :
        throughBasicAuth(as)
        => LET c == last[1].c
               ks == {k \in 1..Len(as) : c.auth = BasicValue(as[k][1], as[k][2])}
           IN IF c.auth = <<>> \/ ks = {}
              THEN refused
              ELSE /\ \E k \in ks : /\ \A j \in ks : k <= j
                                     /\ Get(c, AuthUserKey) = as[k][1]
                   /\ invoked(c, 1) = c.handlers
                   /\ c.status = StatusOK

-----------------------------------------------------------------------------
(* SpecListener: the serving goroutine accepts up to MaxConns connections,  *)
(* each is closed by the goroutine that serves it, and Close is called up   *)
(* to MaxCloses times, all concurrently.                                     *)

StepListener ==
    \/ \E i \in Conns : AcceptInner(i)
    \/ \E i \in Conns : AcceptCount(i)
    \/ \E i \in Conns : ConnClose(i)
    \/ \E i \in Conns : closeConnAdd(i)
    \/ \E i \in Conns : closeConnCheck(i)
    \/ \E k \in CloseCalls : CloseShutdown(k)
    \/ \E k \in CloseCalls : CloseLoad(k)
    \/ \E k \in CloseCalls : TimerFires(k)
    \/ \E k \in CloseCalls : CloseDone(k)
    \/ \E k \in CloseCalls : CloseSelectDone(k)
    \/ \E k \in CloseCalls : CloseSelectTimeout(k)
    \/ \E k \in CloseCalls : CloseDefer(k)

SpecListener == Init /\ [][StepListener]_vars

\* the connections Accept has returned that have not been closed
openConns == {i \in Conns : conns[i].pc = "open"}

\* the call k of Close returns in this step
returns(k) == closing[k].pc = "defer" /\ closing'[k].pc = "returned"

\* C27: Close waits until all accepted connections have been closed: it
\* returns nil only when no accepted connection is still open, it returns an
\* error when connections are still open after maxWaitTime, and whenever it
\* has returned the inner listener is closed.
C27_CloseWaitsForConns ==
    /\ [][\A k \in CloseCalls :
             returns(k) => /\ ~closing[k].err => openConns = {}
                           /\ (closing[k].timer = "fired" /\ openConns # {})
                                 => closing[k].err
                           /\ ln'.inner = "closed"]_vars
    /\ [](\A k \in CloseCalls : closing[k].pc = "returned" => ln.inner = "closed")

\* C30: the channel done is closed at most once, whatever the interleaving
\* of Close, Accept and the closing of connections.
C30_DoneClosedOnce == ln.closes <= 1

\* whenever Close has returned or panicked, the inner listener is closed
InnerListenerClosed ==
    \A k \in CloseCalls :
       closing[k].pc \in {"returned", "panicked"} => ln.inner = "closed"

-----------------------------------------------------------------------------
(* SpecLate: routes with and without parameters are registered for GET and  *)
(* GET requests are served, in any order: a registration may follow a       *)
(* request, whose Context is in the pool.                                   *)

LatePatterns == {PathX, PatternUsersId, PatternAB}

StepLate ==
    \/ \E pat \in LatePatterns :
          /\ Len(routeObjs) < MaxRoutes
          /\ ~hasRoute(1, pat, "GET")
          /\ RouteTo(1, pat, <<"GET">>, <<routeHandler(Len(routeObjs) + 1)>>)
    \/ \E p \in {PathUsers42, PathUsersAbc, PathX}, reuse \in BOOLEAN :
          HandleRequest("GET", p, FALSE, reuse)

SpecLate == Init /\ [][StepLate]_vars

\* a request has been dispatched in this step: last' is that request and c
\* its Context, whose pvalues is the buffer HandleRequest passed to find
dispatched ==
    /\ stores' = stores
    /\ last' # <<>>
    /\ <<pool, last, crashed>> # <<pool', last', crashed'>>

\* C31: whatever the order of registrations and requests, the parameter
\* buffer HandleRequest passes to the Get of the method's store is at least
\* as long as the largest number of parameters of a route of that store, also
\* when the Context was made and pooled before a route with more parameters
\* was registered.
C31_BufferFitsStore ==
    [][(dispatched /\ last'[1].method \in DOMAIN stores)
       => Len(last'[1].c.pvalues) >= maxPnames(stores[last'[1].method])]_vars

-----------------------------------------------------------------------------
(* SpecCopy: GET /users/<name> is registered; concurrent requests for it are  *)
(* served, and a handler may keep a Copy of the Context of its request.     *)

CopyPaths == {PathUsers42, PathUsersAbc}

StepCopy ==
    \/ /\ NotServing
       /\ routeObjs = <<>>
       /\ RouteTo(1, PatternUsersName, <<"GET">>, <<routeHandler(1)>>)
    \/ \E t \in Tasks, p \in CopyPaths : routeObjs # <<>> /\ TaskGet(t, "GET", p)
    \/ \E t \in Tasks : TaskInit(t)
    \/ \E t \in Tasks : TaskFind(t)
    \/ \E t \in Tasks : TaskNext(t)
    \/ \E t \in Tasks : TaskPut(t)
    \/ \E t \in Tasks : TaskDebug(t)
    \/ \E t \in Tasks : CallCopy(t)

NameName == <<"n", "a", "m", "e">>

SpecCopy == Init /\ [][StepCopy]_vars

\* C32: the parameter values read through a Context that Copy returned stay
\* what they were, also after the original has been put back into the pool
\* and serves another request.
C32_CopyKeepsParams ==
    [][\A t \in Tasks :
          (tasks[t].copy # 0 /\ tasks'[t].copy = tasks[t].copy)
          => Param(heap'[tasks[t].copy], NameName)
               = Param(heap[tasks[t].copy], NameName)]_vars

-----------------------------------------------------------------------------
(* SpecSlash: routes for /x and /x/ are registered for different methods,   *)
(* the fallback chain is the default one or NotFoundHandler alone, and      *)
(* requests for both paths are served one after the other.                  *)

SlashRegs ==
    { [methods |-> <<"POST">>, path |-> PathX],
      [methods |-> <<"PUT">>, path |-> PathXSlash],
      [methods |-> <<"GET">>, path |-> PathXSlash] }

StepSlash ==
    \/ \E hs \in {<<NF>>, <<MNA, NF>>} :
          /\ Startup
          /\ notFound # hs
          /\ EngineNotFound(hs)
    \/ \E reg \in SlashRegs :
          /\ Startup
          /\ Len(routeObjs) < MaxRoutes
          /\ ~hasRoute(1, reg.path, reg.methods[1])
          /\ RouteTo(1, reg.path, reg.methods, <<routeHandler(Len(routeObjs) + 1)>>)
    \/ \E m \in {"GET", "POST"}, p \in {PathX, PathXSlash}, rts \in BOOLEAN,
          reuse \in BOOLEAN :
          HandleRequest(m, p, rts, reuse)

SpecSlash == Init /\ [][StepSlash]_vars

\* the request served last was redirected by redirectTrailingSlash, and the
\* request served in this step is the one a client following the redirect
\* sends: same method, the path of the Location header
followsRedirect ==
    /\ redirected
    /\ last' # <<>>
    /\ ~last'[1].panic
    /\ last'[1].method = last[1].method
    /\ last'[1].path = last[1].c.location
    /\ ~last'[1].rts

\* the request served in this step is answered by a matched route, by
\* MethodNotAllowedHandler (405 and Allow; for OPTIONS Allow alone, see C5) or
\* by 404, and not by a redirect
answeredWithoutRedirect ==
    /\ last'[1].c.location = <<>>
    /\ last'[1].c.status \notin {StatusMovedPermanently, StatusTemporaryRedirect}
    /\ \/ last'[1].rid # 0
       \/ last'[1].c.status \in {StatusMethodNotAllowed, StatusNotFound}
       \/ last'[1].method = "OPTIONS" /\ last'[1].c.allow # <<>>

\* C34: a trailing-slash redirect never loops: the request to the path that
\* redirectTrailingSlash redirected to is answered by a matched route, a 405
\* or a 404, never by another trailing-slash redirect.
C34_RedirectNeverLoops == [][followsRedirect => answeredWithoutRedirect]_vars

\* the same with MethodNotAllowedHandler ahead of NotFoundHandler in the
\* fallback chain, as by default
NoRedirectLoopByDefault ==
    [][(followsRedirect /\ notFound = <<MNA, NF>>) => answeredWithoutRedirect]_vars

-----------------------------------------------------------------------------
(* SpecUpgrade: the engine with protocol-upgrade routes. Routes are         *)
(* registered for GET, POST and WEBSOCKET, and requests are served whose    *)
(* method is GET, POST or the token WEBSOCKET.                              *)

UpgradeRegs ==
    { [methods |-> <<"GET">>, path |-> PathX],
      [methods |-> <<"WEBSOCKET">>, path |-> PathX],
      [methods |-> <<"WEBSOCKET">>, path |-> PathY],
      [methods |-> <<"POST">>, path |-> PathY] }

UpgradeMethods == {"GET", "POST", "WEBSOCKET"}

StepUpgrade ==
    \/ \E reg \in UpgradeRegs :
          /\ Startup
          /\ Len(routeObjs) < MaxRoutes
          /\ ~hasRoute(1, reg.path, reg.methods[1])
          /\ RouteTo(1, reg.path, reg.methods, <<routeHandler(Len(routeObjs) + 1)>>)
    \/ \E m \in UpgradeMethods, p \in {PathX, PathY}, reuse \in BOOLEAN,
          upgraded \in BOOLEAN :
          HandleRequestUpgrade([method |-> m, path |-> p, rts |-> FALSE, auth |-> <<>>],
                               reuse, upgraded)

SpecUpgrade == Init /\ [][StepUpgrade]_vars

\* the numbers of the registrations in the WEBSOCKET store
upgradeRoutes ==
    IF "WEBSOCKET" \in DOMAIN stores
    THEN {stores["WEBSOCKET"][i].rid : i \in 1..Len(stores["WEBSOCKET"])}
    ELSE {}

\* find reports ws only for a GET request whose path the GET store does not
\* match and the WEBSOCKET store does, and a path registered for both is
\* resolved to the GET chain with ws = FALSE
UpgradeOnlyForGET ==
    (last # <<>> /\ ~last[1].panic)
    => LET r == last[1]
       IN /\ r.ws => /\ r.method = "GET"
                     /\ matching("GET", r.path) = {}
                     /\ matching("WEBSOCKET", r.path) # {}
                     /\ r.rid \in upgradeRoutes
          /\ (r.method = "GET" /\ matching("GET", r.path) # {})
                => /\ ~r.ws
                   /\ \E i \in matching("GET", r.path) : r.rid = stores["GET"][i].rid

\* C35: find reports ws = true only when the method is GET, the GET store has
\* no match for the path and the WEBSOCKET store has one; a path registered
\* for GET and for WEBSOCKET is resolved to the GET chain with ws = false; and
\* no request whose method is not GET is resolved to a WEBSOCKET chain.
C35_UpgradeMatch ==
    /\ UpgradeOnlyForGET
    /\ (last # <<>> /\ ~last[1].panic /\ last[1].method # "GET")
         => last[1].rid \notin upgradeRoutes

-----------------------------------------------------------------------------
(* SpecStores: goroutines call add, find and findAllowedMethods at the same *)
(* time; every statement of storesMap.Set, Get and Range is a step.         *)

StoreAdds ==
    { [method |-> "GET", path |-> PatternUsersName],
      [method |-> "POST", path |-> PathX] }

StorePaths == {PathUsersAbc}

StepStores ==
    \E p \in LockCalls :
        \/ \E a \in StoreAdds : CallAdd(p, a.method, a.path, <<hN>>)
        \/ \E path \in StorePaths : CallFind(p, "GET", path)
        \/ \E path \in StorePaths : CallFindAllowedMethods(p, path)
        \/ StmtRLock(p)
        \/ StmtRead(p)
        \/ StmtRUnlock(p)
        \/ StmtLock(p)
        \/ StmtWait(p)
        \/ StmtWrite(p)
        \/ StmtUnlock(p)
        \/ StmtNil(p)
        \/ StmtAdd(p)
        \/ StmtMax(p)
        \/ StmtStoreGet(p)
        \/ StmtMake(p)
        \/ StmtRange(p)

SpecStores == Init /\ [][StepStores]_vars

\* the call is running and its next statement cannot be run now
blocked(p) ==
    \/ at(p, "RLock") /\ mu.w # 0
    \/ at(p, "Lock") /\ mu.w # 0
    \/ at(p, "wait") /\ mu.r # {}

\* the call has the lock exclusively: it is the writer and no reader is left
lockedBy(p) == mu.w = p /\ mu.r = {}

\* the map is read and written with the lock held: v := m.M[key] of Get with
\* the read lock, m.M[key] = val of Set and the loop of Range with the lock
MapAccessLocked ==
    \A p \in LockCalls :
        /\ at(p, "read") => p \in mu.r
        /\ (at(p, "write") \/ at(p, "range")) => lockedBy(p)

\* while the program runs and some call has statements left, one of these
\* calls can run its next statement
NoLockDeadlock ==
    (~crashed /\ \E p \in LockCalls : calls[p].todo # <<>>)
        => \E p \in LockCalls : calls[p].todo # <<>> /\ ~blocked(p)

\* a call that has returned has no lock, and with every call returned the
\* lock is free
LockFreeAfterReturn ==
    /\ \A p \in LockCalls : returned(p) => (mu.w # p /\ p \notin mu.r)
    /\ (\A p \in LockCalls : calls[p].todo = <<>>) => mu = newStoresMapMutex

\* C38: every read or write of the per-method store map happens while its
\* lock is held (Set and Range exclusively, Get shared), and no interleaving
\* of concurrent add, find and findAllowedMethods calls deadlocks or leaves
\* the lock held after the call returns
C38_StoresMapLock ==
    /\ MapAccessLocked
    /\ NoLockDeadlock
    /\ LockFreeAfterReturn

\* an add that made a store, a find and a findAllowedMethods have run at the
\* same time and have all returned
C38_Witness ==
    /\ \E p \in LockCalls : calls[p].op = "add" /\ returned(p)
    /\ \E p \in LockCalls : calls[p].op = "find" /\ returned(p)
    /\ \E p \in LockCalls : calls[p].op = "findAllowedMethods" /\ returned(p)
    /\ stores # <<>>

\* a Get waits for the Set of an add that has the lock, while that Set waits
\* for the Get of another call to leave
C38_WitnessContended ==
    \E p, q, r \in LockCalls :
        /\ at(p, "RLock") /\ blocked(p)
        /\ at(q, "wait") /\ blocked(q) /\ calls[q].op = "add"
        /\ r \in mu.r

=============================================================================
